---- MODULE Spec2Model ----
(***************************************************************************)
(* Folder-based synchronisation of the Scheduling Assistant: the           *)
(* FolderSyncService functions (scanFolder, cleanupOldBackups,             *)
(* createWorkingFileFromBase, createEmptyBase, updateBase,                 *)
(* archiveWorkingFile, saveToWorkingFile, the merge lock) of               *)
(* src/src/components/controls/SmartSelect.tsx and the MergeConflictDialog *)
(* of src/unnamed/part_000.                                                *)
(*                                                                         *)
(* A file name is the sequence of its dot-separated components:            *)
(* "schedule.a.db" is <<"schedule", "a", "db">>.  No component holds a     *)
(* dot, so the regular expressions of the source are matched component by  *)
(* component.  A file's content is a sequence (of bytes, or the one JSON   *)
(* document of the lock); the empty file is <<>>.                          *)
(*                                                                         *)
(* Every await of the source that touches the shared folder is one step    *)
(* of the calling process; each such step may fail (IOError).  The         *)
(* writable stream of the File System Access API writes to a swap file and *)
(* replaces the target when close() resolves, so write()+close() is one    *)
(* visible step, while getFileHandle(name, {create: true}) makes an empty  *)
(* file visible at once.                                                   *)
(***************************************************************************)
EXTENDS Integers, Sequences, FiniteSets, TLC

VARIABLES
  folder,        \* the shared directory: name -> [kind, data]
  now,           \* the clock, milliseconds since 2025-01-01T00:00:00Z
  tz,            \* local time minus UTC, milliseconds
  pc,            \* per process: the await it is suspended at
  loc,           \* per process: the locals of the running call
  ret,           \* per process: the result of the last completed call
  lockSeen,      \* history: the lock file p read at its last check is still the one in the folder
  baseVersions,  \* history: the contents a completed write gave the base
  archivedAt,    \* history: backup name -> time archiveWorkingFile wrote it
  conflicts,     \* MergeConflictDialog: the conflicts prop
  showAdvanced,  \* MergeConflictDialog: useState(false)
  resolutions,   \* MergeConflictDialog: useState({})
  emitted,       \* MergeConflictDialog: the last callback fired
  selected       \* history: per conflict key, the choice the user last made

vars == <<folder, now, tz, pc, loc, ret, lockSeen, baseVersions, archivedAt,
          conflicts, showAdvanced, resolutions, emitted, selected>>

procVars == <<pc, loc, ret>>
histVars == <<lockSeen, baseVersions, archivedAt>>
dlgVars == <<conflicts, showAdvanced, resolutions, emitted, selected>>

-----------------------------------------------------------------------------
(* Bounds *)

MaxTicks == 3

\* the days the clock runs past its first day
MaxDays == 2

\* the largest maxAgeDays handed to cleanupOldBackups
MaxAgeDays == 2

\* the most entries a scanned folder holds
MaxEntries == 3

\* the most conflicts a merge hands to the conflict dialog
MaxConflicts == 2

\* the most timer ticks and forceSyncNow() calls an engine receives
MaxTriggers == 3

\* the largest maxDays handed to shouldCheckpoint
MaxCheckpointDays == 2

\* the most rows a compared table holds
MaxRows == 3

\* the most menu items one event holds at a time
MaxItems == 3

\* the most menu items ever created for the event
MaxCreated == 4

-----------------------------------------------------------------------------
(* Processes and their identities *)

Procs == {"p1", "p2"}

Email(p) == IF p = "p1" THEN <<"a">> ELSE <<"b">>

-----------------------------------------------------------------------------
(* The folder *)

File(d) == [kind |-> "file", data |-> d]

Exists(n) == n \in DOMAIN folder

Put(f, n, v) == [m \in (DOMAIN f) \cup {n} |-> IF m = n THEN v ELSE f[m]]

Remove(f, n) == [m \in (DOMAIN f) \ {n} |-> f[m]]

EmptyFolder == [m \in {} |-> File(<<>>)]

\* getFileHandle(name, {create: true}): an absent file appears, empty
GetFileHandleCreate(f, n) == IF n \in DOMAIN f THEN f ELSE Put(f, n, File(<<>>))

NoRet == [tag |-> "none", val |-> <<>>]
Null == [tag |-> "null", val |-> <<>>]
Ok == [tag |-> "ok", val |-> <<>>]
Throw(e) == [tag |-> e, val |-> <<>>]

NoLoc == [op |-> "none"]

-----------------------------------------------------------------------------
(* File names *)

BASE_FILE_NAME == <<"schedule", "base">>
BACKUP_EXTENSION == "bak"
MERGE_LOCK_FILE == <<"schedule", "merge-lock">>

\* a working file name without its extension
MutCreateWorkingFileName(email) == <<"schedule">> \o email

createWorkingFileName(email) == <<"schedule">> \o email \o <<"db">>

-----------------------------------------------------------------------------
(* The merge lock *)

oneHour == 60 * 60 * 1000

LockTick == 30 * 60 * 1000

AllWorkingFileNames == <<createWorkingFileName(<<"a">>), createWorkingFileName(<<"b">>)>>

\* a lock text that leaves the working files out
MutJSONstringify(lockInfo) == <<[lockInfo EXCEPT !.workingFiles = <<>>]>>

\* JSON.stringify(lockInfo, null, 2): one document; JSON.parse throws on the
\* empty text and on a text that goes on after its first document
JSONstringify(lockInfo) == <<lockInfo>>

JSONparseThrows(text) == Len(text) # 1

JSONparse(text) == text[1]

\* the age test with the threshold dropped
MutIsStaleLock(lockInfo, t) == t - lockInfo.startedAt >= 0

\* new Date(startedAt).getTime() of a startedAt that is no timestamp (absent,
\* or no date): NaN, written as a negative instant
NaN == 0 - 1

IsNaN(x) == x < 0

\* lockAge > oneHour; a comparison with NaN is false
IsStaleLock(lockInfo, t) ==
  /\ ~IsNaN(lockInfo.startedAt)
  /\ t - lockInfo.startedAt > oneHour

\* removeMergeLock without its removeEntry
MutRemoveMergeLock(f, ok) == f

\* removeMergeLock: removeEntry, every exception swallowed
removeMergeLock(f, ok) ==
  IF ok /\ MERGE_LOCK_FILE \in DOMAIN f THEN Remove(f, MERGE_LOCK_FILE) ELSE f

ForgetLock == [q \in Procs |-> FALSE]

\* the processes whose createMergeLock completed at most an hour ago and
\* whose removeMergeLock has not been called yet
FreshHolders ==
  {q \in Procs : pc[q] = "merging" /\ now - loc[q].lockInfo.startedAt <= 3600000}

callCheckMergeLock(p) ==
  /\ pc[p] = "idle"
  /\ pc' = [pc EXCEPT ![p] = "chk_read"]
  /\ loc' = [loc EXCEPT ![p] = [op |-> "checkMergeLock"]]
  /\ ret' = [ret EXCEPT ![p] = NoRet]
  /\ UNCHANGED <<folder, now, tz, histVars, dlgVars>>

\* getFileHandle, getFile, text, JSON.parse and the age test; any exception
\* is caught and null returned
checkMergeLock_read(p) ==
  /\ pc[p] = "chk_read"
  /\ \E ok \in BOOLEAN :
       LET present == Exists(MERGE_LOCK_FILE)
           text == IF present THEN folder[MERGE_LOCK_FILE].data ELSE <<>>
       IN /\ lockSeen' = [lockSeen EXCEPT ![p] = ok /\ present]
          /\ IF ~ok \/ ~present \/ JSONparseThrows(text)
             THEN /\ pc' = [pc EXCEPT ![p] = "chk_done"]
                  /\ ret' = [ret EXCEPT ![p] = Null]
                  /\ loc' = [loc EXCEPT ![p] = [op |-> "checkMergeLock", sawStale |-> FALSE,
                                                removeFailed |-> FALSE, goneAtReturn |-> ~present,
                                                readFailed |-> ~ok, holders |-> FreshHolders]]
             ELSE IF IsStaleLock(JSONparse(text), now)
             THEN /\ pc' = [pc EXCEPT ![p] = "chk_remove"]
                  /\ ret' = ret
                  /\ loc' = [loc EXCEPT ![p] = [op |-> "checkMergeLock", sawStale |-> TRUE,
                                                removeFailed |-> FALSE, goneAtReturn |-> FALSE,
                                                readFailed |-> FALSE, holders |-> FreshHolders]]
             ELSE /\ pc' = [pc EXCEPT ![p] = "chk_done"]
                  /\ ret' = [ret EXCEPT ![p] = [tag |-> "lock", val |-> JSONparse(text)]]
                  /\ loc' = [loc EXCEPT ![p] = [op |-> "checkMergeLock", sawStale |-> FALSE,
                                                removeFailed |-> FALSE, goneAtReturn |-> FALSE,
                                                readFailed |-> FALSE, holders |-> FreshHolders]]
  /\ UNCHANGED <<folder, now, tz, baseVersions, archivedAt, dlgVars>>

\* await removeMergeLock(folderHandle); return null
checkMergeLock_remove(p) ==
  /\ pc[p] = "chk_remove"
  /\ \E ok \in BOOLEAN :
       /\ folder' = removeMergeLock(folder, ok)
       /\ loc' = [loc EXCEPT ![p] = [op |-> "checkMergeLock", sawStale |-> TRUE,
                                     removeFailed |-> ~ok /\ Exists(MERGE_LOCK_FILE),
                                     goneAtReturn |-> MERGE_LOCK_FILE \notin DOMAIN folder',
                                     readFailed |-> FALSE, holders |-> loc[p].holders]]
       /\ lockSeen' = IF folder' = folder THEN lockSeen ELSE ForgetLock
  /\ pc' = [pc EXCEPT ![p] = "chk_done"]
  /\ ret' = [ret EXCEPT ![p] = Null]
  /\ UNCHANGED <<now, tz, baseVersions, archivedAt, dlgVars>>

\* the caller found a lock: it warns the user and starts no merge
lockFound(p) ==
  /\ pc[p] = "chk_done"
  /\ ret[p].tag = "lock"
  /\ pc' = [pc EXCEPT ![p] = "idle"]
  /\ loc' = [loc EXCEPT ![p] = NoLoc]
  /\ UNCHANGED <<folder, now, tz, ret, histVars, dlgVars>>

\* a catch block that hands the failure on to the caller
MutCreateMergeLockCatch(e) == Throw(e)

\* catch (e) { console.warn(...) }: createMergeLock returns normally
createMergeLockCatch(e) == Ok

\* the caller found no lock and starts a merge: createMergeLock builds
\* lockInfo before its first await
callCreateMergeLock(p) ==
  /\ pc[p] = "chk_done"
  /\ ret[p].tag = "null"
  /\ pc' = [pc EXCEPT ![p] = "cml_open"]
  /\ loc' = [loc EXCEPT ![p] = [op |-> "createMergeLock", wrote |-> FALSE,
                                lockInfo |-> [email |-> Email(p), startedAt |-> now,
                                              workingFiles |-> AllWorkingFileNames]]]
  /\ ret' = [ret EXCEPT ![p] = NoRet]
  /\ UNCHANGED <<folder, now, tz, histVars, dlgVars>>

\* getFileHandle(MERGE_LOCK_FILE, {create: true}); a failure is caught and
\* createMergeLock returns normally
createMergeLock_getFileHandle(p) ==
  /\ pc[p] = "cml_open"
  /\ \E ok \in BOOLEAN :
       IF ok
       THEN /\ folder' = GetFileHandleCreate(folder, MERGE_LOCK_FILE)
            /\ pc' = [pc EXCEPT ![p] = "cml_write"]
            /\ ret' = ret
       ELSE /\ folder' = folder
            /\ pc' = [pc EXCEPT ![p] = "merging"]
            /\ ret' = [ret EXCEPT ![p] = createMergeLockCatch("IOError")]
  /\ UNCHANGED <<now, tz, loc, histVars, dlgVars>>

\* createWritable, write(JSON.stringify(lockInfo)), close; a failure is
\* caught and createMergeLock returns normally
createMergeLock_write(p) ==
  /\ pc[p] = "cml_write"
  /\ \E ok \in BOOLEAN :
       IF ok
       THEN /\ folder' = Put(folder, MERGE_LOCK_FILE, File(JSONstringify(loc[p].lockInfo)))
            /\ loc' = [loc EXCEPT ![p].wrote = TRUE]
            /\ lockSeen' = ForgetLock
       ELSE UNCHANGED <<folder, loc, lockSeen>>
  /\ pc' = [pc EXCEPT ![p] = "merging"]
  /\ ret' = [ret EXCEPT ![p] = IF loc'[p].wrote THEN Ok ELSE createMergeLockCatch("IOError")]
  /\ UNCHANGED <<now, tz, baseVersions, archivedAt, dlgVars>>

\* the merge is over: removeMergeLock
finishMerge(p) ==
  /\ pc[p] = "merging"
  /\ \E ok \in BOOLEAN :
       /\ folder' = removeMergeLock(folder, ok)
       /\ lockSeen' = IF folder' = folder THEN lockSeen ELSE ForgetLock
  /\ pc' = [pc EXCEPT ![p] = "idle"]
  /\ loc' = [loc EXCEPT ![p] = NoLoc]
  /\ ret' = [ret EXCEPT ![p] = Ok]
  /\ UNCHANGED <<now, tz, baseVersions, archivedAt, dlgVars>>

\* the process dies in the middle of a merge and is opened again later: the
\* lock file stays behind
crashDuringMerge(p) ==
  /\ pc[p] = "merging"
  /\ pc' = [pc EXCEPT ![p] = "idle"]
  /\ loc' = [loc EXCEPT ![p] = NoLoc]
  /\ ret' = [ret EXCEPT ![p] = NoRet]
  /\ UNCHANGED <<folder, now, tz, histVars, dlgVars>>

lockTick ==
  /\ now < MaxTicks * LockTick
  /\ now' = now + LockTick
  /\ UNCHANGED <<folder, tz, procVars, histVars, dlgVars>>

DlgIdle ==
  /\ conflicts = <<>>
  /\ showAdvanced = FALSE
  /\ resolutions = [k \in {} |-> "base"]
  /\ emitted = [src |-> "none", calls |-> <<>>, list |-> <<>>]
  /\ selected = [k \in {} |-> "base"]

ProcsIdle ==
  /\ pc = [p \in Procs |-> "idle"]
  /\ loc = [p \in Procs |-> NoLoc]
  /\ ret = [p \in Procs |-> NoRet]

HistIdle ==
  /\ lockSeen = ForgetLock
  /\ baseVersions = {}
  /\ archivedAt = [n \in {} |-> 0]

InitLock ==
  /\ folder = EmptyFolder
  /\ now = 0
  /\ tz = 0
  /\ ProcsIdle
  /\ HistIdle
  /\ DlgIdle

NextLock ==
  \/ \E p \in Procs : callCheckMergeLock(p)
  \/ \E p \in Procs : checkMergeLock_read(p)
  \/ \E p \in Procs : checkMergeLock_remove(p)
  \/ \E p \in Procs : lockFound(p)
  \/ \E p \in Procs : callCreateMergeLock(p)
  \/ \E p \in Procs : createMergeLock_getFileHandle(p)
  \/ \E p \in Procs : createMergeLock_write(p)
  \/ \E p \in Procs : finishMerge(p)
  \/ \E p \in Procs : crashDuringMerge(p)
  \/ lockTick

SpecLock == InitLock /\ [][NextLock]_vars

-----------------------------------------------------------------------------
(* Claims on the merge lock *)

LockPresent == Exists(MERGE_LOCK_FILE) /\ folder[MERGE_LOCK_FILE].data # <<>>

LockInFolder == folder[MERGE_LOCK_FILE].data[1]

\* started at most one hour ago
FreshAt(startedAt, t) == t - startedAt <= 3600000

Holder(p) == pc[p] = "merging" /\ loc[p].wrote

\* C1 as stated: two processes that each ran checkMergeLock and then
\* createMergeLock never both consider themselves the holder of the lock.
C1_NoTwoHolders ==
  \A p \in Procs : \A q \in Procs : (p # q) => ~(Holder(p) /\ Holder(q))

\* C1 amended: the lock is advisory.  A step of process p removes or
\* replaces a fresh lock of another author only if that lock was written
\* after p's checkMergeLock read the folder; a fresh lock that p's check
\* read is left alone by p.
C1_AdvisoryLock ==
  [][\A p \in Procs :
       ( /\ pc'[p] # pc[p]
         /\ LockPresent
         /\ LockInFolder.email # Email(p)
         /\ FreshAt(LockInFolder.startedAt, now)
         /\ folder' # folder )
       => ~lockSeen[p]]_vars

\* p's check returned the fresh lock of the other author, who is merging,
\* and the lock is still in place
C1_Witness ==
  \E p \in Procs : \E q \in Procs :
    /\ p # q
    /\ pc[p] = "chk_done"
    /\ ret[p].tag = "lock"
    /\ ret[p].val.email = Email(q)
    /\ Holder(q)
    /\ LockPresent
    /\ LockInFolder = ret[p].val
    /\ lockSeen[p]

MergedFiles == <<<<"schedule", "a", "db">>, <<"schedule", "b", "db">>>>

LockName == <<"schedule", "merge-lock">>

\* process p ends a checkMergeLock read, a removeMergeLock, a createMergeLock
CheckReads(p) == pc[p] = "chk_read" /\ pc'[p] # "chk_read"
RemoveCompletes(p) == pc[p] = "merging" /\ pc'[p] = "idle" /\ ret'[p].tag = "ok"
CreateCompletes(p) == pc[p] \in {"cml_open", "cml_write"} /\ pc'[p] = "merging"

LockNames(f, p) ==
  /\ LockName \in DOMAIN f
  /\ Len(f[LockName].data) = 1
  /\ f[LockName].data[1].email = Email(p)

-----------------------------------------------------------------------------
(* The base snapshot and the working files *)

\* the database images a caller hands to createEmptyBase, updateBase and
\* saveToWorkingFile; an exported database is never empty
Data == {<<1, 1>>, <<2, 2>>}

Returned(p, r) ==
  /\ pc' = [pc EXCEPT ![p] = "idle"]
  /\ ret' = [ret EXCEPT ![p] = r]

\* file.arrayBuffer() of a File taken by getFile(): the bytes as of getFile;
\* when the file was replaced in between the read is refused
\* (NotReadableError) or served from either version
ArrayBufferOutcomes(f, n, snap) ==
  {[tag |-> "data", val |-> snap]}
    \cup (IF n \in DOMAIN f /\ f[n].data # snap
          THEN {[tag |-> "data", val |-> f[n].data], Throw("IOError")}
          ELSE {})
    \cup (IF n \notin DOMAIN f THEN {Throw("IOError")} ELSE {})

\* the caller's scan found no base
callCreateEmptyBase(p) ==
  /\ pc[p] = "idle"
  /\ ~Exists(BASE_FILE_NAME)
  /\ \E d \in Data :
       loc' = [loc EXCEPT ![p] = [op |-> "createEmptyBase", data |-> d]]
  /\ pc' = [pc EXCEPT ![p] = "ceb_open"]
  /\ ret' = [ret EXCEPT ![p] = NoRet]
  /\ UNCHANGED <<folder, now, tz, histVars, dlgVars>>

\* folderHandle.getFileHandle(BASE_FILE_NAME, { create: true })
createEmptyBase_getFileHandle(p) ==
  /\ pc[p] = "ceb_open"
  /\ \E ok \in BOOLEAN :
       IF ok
       THEN /\ folder' = GetFileHandleCreate(folder, BASE_FILE_NAME)
            /\ pc' = [pc EXCEPT ![p] = "ceb_write"]
            /\ ret' = ret
       ELSE /\ folder' = folder
            /\ Returned(p, Throw("IOError"))
  /\ UNCHANGED <<now, tz, loc, histVars, dlgVars>>

\* createWritable, write(initialDbData), close
createEmptyBase_write(p) ==
  /\ pc[p] = "ceb_write"
  /\ \E ok \in BOOLEAN :
       IF ok
       THEN /\ folder' = Put(folder, BASE_FILE_NAME, File(loc[p].data))
            /\ baseVersions' = baseVersions \cup {loc[p].data}
            /\ Returned(p, Ok)
       ELSE /\ UNCHANGED <<folder, baseVersions>>
            /\ Returned(p, Throw("IOError"))
  /\ UNCHANGED <<now, tz, loc, lockSeen, archivedAt, dlgVars>>

\* the caller holds the handle of the base its scan found
callUpdateBase(p) ==
  /\ pc[p] = "idle"
  /\ Exists(BASE_FILE_NAME)
  /\ \E d \in Data :
       loc' = [loc EXCEPT ![p] = [op |-> "updateBase", data |-> d]]
  /\ pc' = [pc EXCEPT ![p] = "ub_write"]
  /\ ret' = [ret EXCEPT ![p] = NoRet]
  /\ UNCHANGED <<folder, now, tz, histVars, dlgVars>>

\* createWritable, write(mergedData), close: the base is replaced when
\* close resolves
updateBase_write(p) ==
  /\ pc[p] = "ub_write"
  /\ \E ok \in BOOLEAN :
       IF ok
       THEN /\ folder' = Put(folder, BASE_FILE_NAME, File(loc[p].data))
            /\ baseVersions' = baseVersions \cup {loc[p].data}
            /\ Returned(p, Ok)
       ELSE /\ UNCHANGED <<folder, baseVersions>>
            /\ Returned(p, Throw("IOError"))
  /\ UNCHANGED <<now, tz, loc, lockSeen, archivedAt, dlgVars>>

callReadDatabaseFile(p) ==
  /\ pc[p] = "idle"
  /\ Exists(BASE_FILE_NAME)
  /\ loc' = [loc EXCEPT ![p] = [op |-> "readDatabaseFile"]]
  /\ pc' = [pc EXCEPT ![p] = "rd_getFile"]
  /\ ret' = [ret EXCEPT ![p] = NoRet]
  /\ UNCHANGED <<folder, now, tz, histVars, dlgVars>>

\* handle.getFile()
readDatabaseFile_getFile(p) ==
  /\ pc[p] = "rd_getFile"
  /\ \E ok \in BOOLEAN :
       IF ok /\ Exists(BASE_FILE_NAME)
       THEN /\ loc' = [loc EXCEPT ![p] = [op |-> "readDatabaseFile",
                                          snap |-> folder[BASE_FILE_NAME].data]]
            /\ pc' = [pc EXCEPT ![p] = "rd_buf"]
            /\ ret' = ret
       ELSE /\ loc' = loc
            /\ Returned(p, Throw("IOError"))
  /\ UNCHANGED <<folder, now, tz, histVars, dlgVars>>

\* file.arrayBuffer()
readDatabaseFile_arrayBuffer(p) ==
  /\ pc[p] = "rd_buf"
  /\ \E r \in ArrayBufferOutcomes(folder, BASE_FILE_NAME, loc[p].snap) \cup {Throw("IOError")} :
       /\ Returned(p, r)
       /\ loc' = [loc EXCEPT ![p] =
                    IF r.tag = "data"
                    THEN [op |-> "readDatabaseFile", baseData |-> r.val]
                    ELSE [op |-> "readDatabaseFile"]]
  /\ UNCHANGED <<folder, now, tz, histVars, dlgVars>>

\* createWorkingFileFromBase(folderHandle, baseHandle, email), called with
\* the caller's own email
callCreateWorkingFileFromBase(p) ==
  /\ pc[p] = "idle"
  /\ Exists(BASE_FILE_NAME)
  /\ LET workingFileName == createWorkingFileName(Email(p))
     IN loc' = [loc EXCEPT ![p] =
                  [op |-> "createWorkingFileFromBase",
                   workingFileName |-> workingFileName,
                   existed |-> Exists(workingFileName),
                   old |-> IF Exists(workingFileName) THEN folder[workingFileName].data ELSE <<>>]]
  /\ pc' = [pc EXCEPT ![p] = "cwf_getFile"]
  /\ ret' = [ret EXCEPT ![p] = NoRet]
  /\ UNCHANGED <<folder, now, tz, histVars, dlgVars>>

\* baseHandle.getFile()
createWorkingFileFromBase_getFile(p) ==
  /\ pc[p] = "cwf_getFile"
  /\ \E ok \in BOOLEAN :
       IF ok /\ Exists(BASE_FILE_NAME)
       THEN /\ loc' = [loc EXCEPT ![p] =
                         [f \in DOMAIN loc[p] \cup {"snap"} |->
                            IF f = "snap" THEN folder[BASE_FILE_NAME].data ELSE loc[p][f]]]
            /\ pc' = [pc EXCEPT ![p] = "cwf_buf"]
            /\ ret' = ret
       ELSE /\ loc' = loc
            /\ Returned(p, Throw("IOError"))
  /\ UNCHANGED <<folder, now, tz, histVars, dlgVars>>

\* baseFile.arrayBuffer()
createWorkingFileFromBase_arrayBuffer(p) ==
  /\ pc[p] = "cwf_buf"
  /\ \E r \in ArrayBufferOutcomes(folder, BASE_FILE_NAME, loc[p].snap) \cup {Throw("IOError")} :
       IF r.tag = "data"
       THEN /\ loc' = [loc EXCEPT ![p] =
                         [op |-> "createWorkingFileFromBase",
                          workingFileName |-> loc[p].workingFileName,
                          existed |-> loc[p].existed, old |-> loc[p].old,
                          baseData |-> r.val]]
            /\ pc' = [pc EXCEPT ![p] = "cwf_open"]
            /\ ret' = ret
       ELSE /\ loc' = [loc EXCEPT ![p] =
                         [op |-> "createWorkingFileFromBase",
                          workingFileName |-> loc[p].workingFileName,
                          existed |-> loc[p].existed, old |-> loc[p].old]]
            /\ Returned(p, r)
  /\ UNCHANGED <<folder, now, tz, histVars, dlgVars>>

\* folderHandle.getFileHandle(workingFileName, { create: true })
createWorkingFileFromBase_getFileHandle(p) ==
  /\ pc[p] = "cwf_open"
  /\ \E ok \in BOOLEAN :
       IF ok
       THEN /\ folder' = GetFileHandleCreate(folder, loc[p].workingFileName)
            /\ pc' = [pc EXCEPT ![p] = "cwf_write"]
            /\ ret' = ret
       ELSE /\ folder' = folder
            /\ Returned(p, Throw("IOError"))
  /\ UNCHANGED <<now, tz, loc, histVars, dlgVars>>

\* createWritable, write(baseData), close; return workingHandle
createWorkingFileFromBase_write(p) ==
  /\ pc[p] = "cwf_write"
  /\ \E ok \in BOOLEAN :
       IF ok
       THEN /\ folder' = Put(folder, loc[p].workingFileName, File(loc[p].baseData))
            /\ Returned(p, Ok)
       ELSE /\ folder' = folder
            /\ Returned(p, Throw("IOError"))
  /\ UNCHANGED <<now, tz, loc, histVars, dlgVars>>

\* saveToWorkingFile(workingHandle, data) by the owner of the working file:
\* createWritable, write(data), close
saveToWorkingFile(p) ==
  /\ pc[p] = "idle"
  /\ Exists(createWorkingFileName(Email(p)))
  /\ \E d \in Data : \E ok \in BOOLEAN :
       /\ loc' = [loc EXCEPT ![p] = [op |-> "saveToWorkingFile", data |-> d]]
       /\ IF ok
          THEN /\ folder' = Put(folder, createWorkingFileName(Email(p)), File(d))
               /\ ret' = [ret EXCEPT ![p] = Ok]
          ELSE /\ folder' = folder
               /\ ret' = [ret EXCEPT ![p] = Throw("IOError")]
  /\ UNCHANGED <<now, tz, pc, histVars, dlgVars>>

InitBase ==
  /\ folder = EmptyFolder
  /\ now = 0
  /\ tz = 0
  /\ ProcsIdle
  /\ HistIdle
  /\ DlgIdle

NextBase ==
  \/ \E p \in Procs : callCreateEmptyBase(p)
  \/ \E p \in Procs : createEmptyBase_getFileHandle(p)
  \/ \E p \in Procs : createEmptyBase_write(p)
  \/ \E p \in Procs : callUpdateBase(p)
  \/ \E p \in Procs : updateBase_write(p)
  \/ \E p \in Procs : callReadDatabaseFile(p)
  \/ \E p \in Procs : readDatabaseFile_getFile(p)
  \/ \E p \in Procs : readDatabaseFile_arrayBuffer(p)
  \/ \E p \in Procs : callCreateWorkingFileFromBase(p)
  \/ \E p \in Procs : createWorkingFileFromBase_getFile(p)
  \/ \E p \in Procs : createWorkingFileFromBase_arrayBuffer(p)
  \/ \E p \in Procs : createWorkingFileFromBase_getFileHandle(p)
  \/ \E p \in Procs : createWorkingFileFromBase_write(p)
  \/ \E p \in Procs : saveToWorkingFile(p)

SpecBase == InitBase /\ [][NextBase]_vars

-----------------------------------------------------------------------------
(* Claims on the base snapshot and the working files *)

BaseReads(p) == IF "baseData" \in DOMAIN loc[p] THEN {loc[p].baseData} ELSE {}

\* C2 as stated: whatever a reader of the base (readDatabaseFile,
\* createWorkingFileFromBase) gets is a complete base, one that a finished
\* createEmptyBase or updateBase wrote; never anything else.
C2_BaseReadComplete ==
  \A p \in Procs : \A b \in BaseReads(p) : b \in baseVersions

\* the folder holds a base that a finished createEmptyBase or updateBase
\* wrote
BaseWritten ==
  Exists(BASE_FILE_NAME) /\ folder[BASE_FILE_NAME].data \in baseVersions

\* C23: once a base exists in the shared folder, no step of createEmptyBase
\* changes the base's content, also when two authors both found no base
\* before either created it; only updateBase changes it.
C23_CreateEmptyBaseKeepsBase ==
  [][\A p \in Procs :
       (pc[p] \in {"ceb_open", "ceb_write"} /\ pc'[p] # pc[p] /\ BaseWritten)
         => /\ BASE_FILE_NAME \in DOMAIN folder'
            /\ folder'[BASE_FILE_NAME] = folder[BASE_FILE_NAME]]_vars

\* C6 as stated: createWorkingFileFromBase called while the author's
\* working file exists does not return normally (AlreadyExists, or the
\* IOError of a failed step) and leaves the file's bytes as they were.
C6_AlreadyExists ==
  \A p \in Procs :
    ( /\ pc[p] = "idle"
      /\ loc[p].op = "createWorkingFileFromBase"
      /\ loc[p].existed )
    => /\ ret[p].tag # "ok"
       /\ Exists(loc[p].workingFileName)
       /\ folder[loc[p].workingFileName].data = loc[p].old

\* the name the working file of process p is to have
WorkingNameOf(p) == <<"schedule">> \o Email(p) \o <<"db">>

\* entry n is the same in folders f and g
SameEntry(f, g, n) ==
  /\ n \in DOMAIN f <=> n \in DOMAIN g
  /\ n \in DOMAIN f => f[n] = g[n]

\* C15: when createWorkingFileFromBase succeeds, the file
\* schedule.<author>.db holds exactly the bytes the call read from the base,
\* which are bytes the base held, and no step of the call changes the base
\* or any other file.
C15_WorkingFileIsBaseCopy ==
  [][\A p \in Procs :
       (loc[p].op = "createWorkingFileFromBase" /\ pc[p] # "idle" /\ pc'[p] # pc[p]) =>
         /\ \A n \in (DOMAIN folder \cup DOMAIN folder') \ {WorkingNameOf(p)} :
              SameEntry(folder, folder', n)
         /\ pc[p] = "cwf_getFile" /\ pc'[p] = "cwf_buf" =>
              loc'[p].snap = folder[<<"schedule", "base">>].data
         /\ pc[p] = "cwf_buf" /\ pc'[p] = "cwf_open" =>
              \/ loc'[p].baseData = loc[p].snap
              \/ loc'[p].baseData = folder[<<"schedule", "base">>].data
         /\ pc'[p] = "idle" /\ ret'[p].tag = "ok" =>
              /\ WorkingNameOf(p) \in DOMAIN folder'
              /\ folder'[WorkingNameOf(p)] = [kind |-> "file", data |-> loc[p].baseData]]_vars

\* createWorkingFileFromBase succeeded for author a: schedule.a.db is a copy
\* of the base while schedule.b.db holds other bytes
C15_Witness ==
  /\ pc["p1"] = "idle"
  /\ loc["p1"].op = "createWorkingFileFromBase"
  /\ ret["p1"].tag = "ok"
  /\ <<"schedule", "base">> \in DOMAIN folder
  /\ folder[<<"schedule", "a", "db">>].data = folder[<<"schedule", "base">>].data
  /\ folder[<<"schedule", "base">>].data # <<>>
  /\ <<"schedule", "b", "db">> \in DOMAIN folder
  /\ folder[<<"schedule", "b", "db">>].data # folder[<<"schedule", "base">>].data

-----------------------------------------------------------------------------
(* Dates.  The clock counts milliseconds from 2025-01-01T00:00:00Z; day d *)
(* of the calendar is DateNames[d + 1].  Local days are 24 hours long (no *)
(* daylight-saving shift falls in the modelled days).                      *)

DayMs == 24 * 60 * 60 * 1000

DateNames == <<"2025-01-01", "2025-01-02", "2025-01-03", "2025-01-04", "2025-01-05",
               "2025-01-06", "2025-01-07", "2025-01-08", "2025-01-09", "2025-01-10">>

\* new Date().toISOString().split('T')[0]: the UTC calendar date
ISODate(t) == DateNames[(t \div DayMs) + 1]

\* /^\d{4}-\d{2}-\d{2}$/
IsDateComponent(c) == \E i \in 1..Len(DateNames) : DateNames[i] = c

\* new Date(year, month - 1, day).getTime(): local midnight of that date
LocalMidnight(c) == ((CHOOSE i \in 1..Len(DateNames) : DateNames[i] = c) - 1) * DayMs - tz

createBackupFileName(workingFileName, t) ==
  workingFileName \o <<BACKUP_EXTENSION, ISODate(t)>>

\* WORKING_FILE_PATTERN = /^schedule\.(.+)\.db$/
MatchesWorkingFilePattern(name) ==
  /\ Len(name) >= 3
  /\ name[1] = "schedule"
  /\ name[Len(name)] = "db"

\* match[1] of WORKING_FILE_PATTERN
WorkingFileEmail(name) == SubSeq(name, 2, Len(name) - 1)

\* BACKUP_FILE_PATTERN = /^schedule\..+\.db\.bak\.(\d{4}-\d{2}-\d{2})$/
MatchesBackupFilePattern(name) ==
  /\ Len(name) >= 5
  /\ name[1] = "schedule"
  /\ name[Len(name) - 2] = "db"
  /\ name[Len(name) - 1] = "bak"
  /\ IsDateComponent(name[Len(name)])

-----------------------------------------------------------------------------
(* archiveWorkingFile *)

ArchivePcs == {"ar_getFile", "ar_buf", "ar_open", "ar_write", "ar_remove"}

WorkingFilePcs == {"cwf_getFile", "cwf_buf", "cwf_open", "cwf_write"}

\* some call is in the middle of working on the working file named n
InUse(n) ==
  \E q \in Procs :
    \/ pc[q] \in ArchivePcs /\ loc[q].fileName = n
    \/ pc[q] \in WorkingFilePcs /\ loc[q].workingFileName = n

WorkingFilesInFolder ==
  {n \in DOMAIN folder : folder[n].kind = "file" /\ MatchesWorkingFilePattern(n)}

SetLoc(p, field, v) ==
  [loc EXCEPT ![p] = [f \in DOMAIN loc[p] \cup {field} |->
                        IF f = field THEN v ELSE loc[p][f]]]

\* archiveWorkingFile whose failed backup write does not stop it
MutArchiveAfterWrite(ok) == "ar_remove"

\* await writable.write(data); await writable.close(): an exception leaves
\* archiveWorkingFile, only a completed write reaches removeEntry
archiveAfterWrite(ok) == IF ok THEN "ar_remove" ELSE "idle"

\* archiveWorkingFile(folderHandle, workingFile) for a working file the
\* caller's scan found; createBackupFileName runs before the first await
callArchiveWorkingFile(p) ==
  /\ pc[p] = "idle"
  /\ \E n \in WorkingFilesInFolder :
       /\ ~InUse(n)
       /\ loc' = [loc EXCEPT ![p] =
                    [op |-> "archiveWorkingFile", fileName |-> n,
                     backupFileName |-> createBackupFileName(n, now),
                     orig |-> folder[n].data]]
  /\ pc' = [pc EXCEPT ![p] = "ar_getFile"]
  /\ ret' = [ret EXCEPT ![p] = NoRet]
  /\ UNCHANGED <<folder, now, tz, histVars, dlgVars>>

\* workingFile.handle.getFile()
archiveWorkingFile_getFile(p) ==
  /\ pc[p] = "ar_getFile"
  /\ \E ok \in BOOLEAN :
       IF ok /\ Exists(loc[p].fileName)
       THEN /\ loc' = SetLoc(p, "snap", folder[loc[p].fileName].data)
            /\ pc' = [pc EXCEPT ![p] = "ar_buf"]
            /\ ret' = ret
       ELSE /\ loc' = loc
            /\ Returned(p, Throw("IOError"))
  /\ UNCHANGED <<folder, now, tz, histVars, dlgVars>>

\* file.arrayBuffer()
archiveWorkingFile_arrayBuffer(p) ==
  /\ pc[p] = "ar_buf"
  /\ \E r \in ArrayBufferOutcomes(folder, loc[p].fileName, loc[p].snap) \cup {Throw("IOError")} :
       IF r.tag = "data"
       THEN /\ loc' = SetLoc(p, "data", r.val)
            /\ pc' = [pc EXCEPT ![p] = "ar_open"]
            /\ ret' = ret
       ELSE /\ loc' = loc
            /\ Returned(p, r)
  /\ UNCHANGED <<folder, now, tz, histVars, dlgVars>>

\* folderHandle.getFileHandle(backupFileName, { create: true })
archiveWorkingFile_getFileHandle(p) ==
  /\ pc[p] = "ar_open"
  /\ \E ok \in BOOLEAN :
       IF ok
       THEN /\ folder' = GetFileHandleCreate(folder, loc[p].backupFileName)
            /\ pc' = [pc EXCEPT ![p] = "ar_write"]
            /\ ret' = ret
       ELSE /\ folder' = folder
            /\ Returned(p, Throw("IOError"))
  /\ UNCHANGED <<now, tz, loc, histVars, dlgVars>>

\* createWritable, write(data), close
archiveWorkingFile_write(p) ==
  /\ pc[p] = "ar_write"
  /\ \E ok \in BOOLEAN :
       /\ IF ok
          THEN /\ folder' = Put(folder, loc[p].backupFileName, File(loc[p].data))
               /\ archivedAt' = Put(archivedAt, loc[p].backupFileName, now)
          ELSE UNCHANGED <<folder, archivedAt>>
       /\ pc' = [pc EXCEPT ![p] = archiveAfterWrite(ok)]
       /\ ret' = [ret EXCEPT ![p] =
                    IF archiveAfterWrite(ok) = "idle" THEN Throw("IOError") ELSE ret[p]]
  /\ UNCHANGED <<now, tz, loc, lockSeen, baseVersions, dlgVars>>

\* folderHandle.removeEntry(workingFile.fileName)
archiveWorkingFile_removeEntry(p) ==
  /\ pc[p] = "ar_remove"
  /\ \E ok \in BOOLEAN :
       IF ok /\ Exists(loc[p].fileName)
       THEN /\ folder' = Remove(folder, loc[p].fileName)
            /\ Returned(p, Ok)
       ELSE /\ folder' = folder
            /\ Returned(p, Throw("IOError"))
  /\ UNCHANGED <<now, tz, loc, histVars, dlgVars>>

\* The folder of a running installation: a base, no working file yet.
InitArchive ==
  /\ folder = Put(EmptyFolder, BASE_FILE_NAME, File(<<1, 1>>))
  /\ now = DayMs
  /\ tz = 0
  /\ ProcsIdle
  /\ lockSeen = ForgetLock
  /\ baseVersions = {<<1, 1>>}
  /\ archivedAt = [n \in {} |-> 0]
  /\ DlgIdle

\* Nobody writes a working file while it is being archived, and nobody
\* archives a working file while it is being created.
NextArchive ==
  \/ \E p \in Procs : ~InUse(createWorkingFileName(Email(p))) /\ callCreateWorkingFileFromBase(p)
  \/ \E p \in Procs : createWorkingFileFromBase_getFile(p)
  \/ \E p \in Procs : createWorkingFileFromBase_arrayBuffer(p)
  \/ \E p \in Procs : createWorkingFileFromBase_getFileHandle(p)
  \/ \E p \in Procs : createWorkingFileFromBase_write(p)
  \/ \E p \in Procs : ~InUse(createWorkingFileName(Email(p))) /\ saveToWorkingFile(p)
  \/ \E p \in Procs : callArchiveWorkingFile(p)
  \/ \E p \in Procs : archiveWorkingFile_getFile(p)
  \/ \E p \in Procs : archiveWorkingFile_arrayBuffer(p)
  \/ \E p \in Procs : archiveWorkingFile_getFileHandle(p)
  \/ \E p \in Procs : archiveWorkingFile_write(p)
  \/ \E p \in Procs : archiveWorkingFile_removeEntry(p)

SpecArchive == InitArchive /\ [][NextArchive]_vars

-----------------------------------------------------------------------------
(* Claims on archiveWorkingFile *)

\* the original is in place with the bytes it had when the call began
OriginalUntouched(f, p) ==
  /\ loc[p].fileName \in DOMAIN f
  /\ f[loc[p].fileName].data = loc[p].orig

\* the backup holds the bytes the original had and the original is gone
Archived(f, p) ==
  /\ loc[p].backupFileName \in DOMAIN f
  /\ f[loc[p].backupFileName].data = loc[p].orig
  /\ loc[p].fileName \notin DOMAIN f

\* C3: whichever step of archiveWorkingFile fails, when the call ends the
\* backup holds the working file's bytes and the original is gone, or the
\* original is in place with its bytes; and the step that deletes the
\* original finds its very bytes in the finished backup.
C3_ArchiveAllOrNothing ==
  [][\A p \in Procs :
       (pc[p] \in ArchivePcs) =>
         /\ (pc'[p] = "idle" => (Archived(folder', p) \/ OriginalUntouched(folder', p)))
         /\ (loc[p].fileName \in DOMAIN folder /\ loc[p].fileName \notin DOMAIN folder' =>
               /\ loc[p].backupFileName \in DOMAIN folder
               /\ folder[loc[p].backupFileName].data = folder[loc[p].fileName].data)]_vars

\* removeEntry failed after the backup was written: the call threw, the
\* backup holds the bytes and the original is still in place
C3_Witness ==
  \E p \in Procs :
    /\ pc[p] = "idle"
    /\ loc[p].op = "archiveWorkingFile"
    /\ ret[p].tag = "IOError"
    /\ loc[p].orig = <<2, 2>>
    /\ loc[p].backupFileName \in DOMAIN folder
    /\ folder[loc[p].backupFileName].data = loc[p].orig
    /\ OriginalUntouched(folder, p)

\* the backups that a completed write of archiveWorkingFile left in folder f
FinishedBackups(f) == {n \in DOMAIN f : n \in DOMAIN archivedAt}

\* C26: archiveWorkingFile preserves earlier backups: every backup file
\* that exists before a step of archiveWorkingFile exists after it with the
\* same bytes, also when the same working-file name is archived twice on
\* one date.
C26_ArchiveKeepsEarlierBackups ==
  [][\A p \in Procs : pc[p] \in ArchivePcs =>
       \A n \in FinishedBackups(folder) :
         n \in DOMAIN folder' /\ folder'[n] = folder[n]]_vars

-----------------------------------------------------------------------------
(* cleanupOldBackups *)

TickMs == 8 * 60 * 60 * 1000

\* the installation's time zone: UTC or UTC-08:00
TzOffsets == {0 - TickMs, 0}

\* a backup test that uses BACKUP_FILE_PATTERN
MutIncludesBackupExtension(name) == MatchesBackupFilePattern(name)

\* name.includes(BACKUP_EXTENSION): ".bak" begins a component after the
\* first (no component of a modelled name merely starts with "bak")
IncludesBackupExtension(name) == \E i \in 2..Len(name) : name[i] = BACKUP_EXTENSION

\* a pattern that asks for the date only
MutParsesBackupDate(name) == IsDateComponent(name[Len(name)])

\* parseBackupDate(name) is not null
ParsesBackupDate(name) == MatchesBackupFilePattern(name)

\* parseBackupDate(name).getTime()
parseBackupDate(name) == LocalMidnight(name[Len(name)])

\* the cutoff one day too late
MutCutoffDate(t, maxAgeDays) == t - (maxAgeDays - 1) * 24 * 60 * 60 * 1000

\* new Date(now.getTime() - maxAgeDays * 24 * 60 * 60 * 1000)
cutoffDate(t, maxAgeDays) == t - maxAgeDays * 24 * 60 * 60 * 1000

\* the sweep given up at the first failed removal
MutCleanupRest(todo, name, ok) == IF ok THEN todo \ {name} ELSE {}

\* the catch inside the loop: the iteration goes on with the next entry
cleanupRest(todo, name, ok) == todo \ {name}

\* cleanupOldBackups(folderHandle, maxAgeDays): now and cutoffDate are
\* taken before the loop
callCleanupOldBackups(p) ==
  /\ pc[p] = "idle"
  /\ \E maxAgeDays \in 0..MaxAgeDays :
       loc' = [loc EXCEPT ![p] =
                 [op |-> "cleanupOldBackups", maxAgeDays |-> maxAgeDays,
                  startedAt |-> now, cutoffDate |-> cutoffDate(now, maxAgeDays),
                  entries |-> DOMAIN folder, todo |-> DOMAIN folder,
                  deletedCount |-> 0, removed |-> {}, failed |-> {}]]
  /\ pc' = [pc EXCEPT ![p] = "cl_loop"]
  /\ ret' = [ret EXCEPT ![p] = NoRet]
  /\ UNCHANGED <<folder, now, tz, histVars, dlgVars>>

\* the entry passes every test of the loop body and is to be removed
IsOldBackup(f, name, cutoff) ==
  /\ name \in DOMAIN f
  /\ f[name].kind = "file"
  /\ IncludesBackupExtension(name)
  /\ ParsesBackupDate(name)
  /\ parseBackupDate(name) < cutoff

\* one iteration of for await (const [name, handle] of folderHandle.entries())
\* that reaches removeEntry, in whatever order the directory yields its
\* entries; the iterations that skip their entry change nothing
cleanupOldBackups_entry(p) ==
  /\ pc[p] = "cl_loop"
  /\ \E name \in loc[p].todo : \E ok \in BOOLEAN :
       /\ IsOldBackup(folder, name, loc[p].cutoffDate)
       /\ folder' = IF ok THEN Remove(folder, name) ELSE folder
       /\ loc' = [loc EXCEPT ![p].todo = cleanupRest(loc[p].todo, name, ok),
                             ![p].deletedCount = IF ok THEN @ + 1 ELSE @,
                             ![p].removed = IF ok THEN @ \cup {name} ELSE @,
                             ![p].failed = IF ok THEN @ ELSE @ \cup {name}]
  /\ UNCHANGED <<now, tz, pc, ret, histVars, dlgVars>>

\* the loop has met every entry: return deletedCount
cleanupOldBackups_return(p) ==
  /\ pc[p] = "cl_loop"
  /\ \A name \in loc[p].todo : ~IsOldBackup(folder, name, loc[p].cutoffDate)
  /\ Returned(p, [tag |-> "count", val |-> loc[p].deletedCount])
  /\ UNCHANGED <<folder, now, tz, loc, histVars, dlgVars>>

\* eight hours pass between two calls (a call takes far less)
cleanupTick ==
  /\ pc["p1"] = "idle"
  /\ now < DayMs * (1 + MaxDays)
  /\ now' = now + TickMs
  /\ UNCHANGED <<folder, tz, procVars, histVars, dlgVars>>

\* A running installation in some time zone: a base and the working file
\* of the one user at work.
InitCleanup ==
  /\ folder = Put(Put(EmptyFolder, BASE_FILE_NAME, File(<<1, 1>>)),
                  createWorkingFileName(<<"a">>), File(<<2, 2>>))
  /\ now = DayMs
  /\ tz \in TzOffsets
  /\ ProcsIdle
  /\ lockSeen = ForgetLock
  /\ baseVersions = {<<1, 1>>}
  /\ archivedAt = [n \in {} |-> 0]
  /\ DlgIdle

NextCleanup ==
  \/ callArchiveWorkingFile("p1")
  \/ archiveWorkingFile_getFile("p1")
  \/ archiveWorkingFile_arrayBuffer("p1")
  \/ archiveWorkingFile_getFileHandle("p1")
  \/ archiveWorkingFile_write("p1")
  \/ archiveWorkingFile_removeEntry("p1")
  \/ callCleanupOldBackups("p1")
  \/ cleanupOldBackups_entry("p1")
  \/ cleanupOldBackups_return("p1")
  \/ cleanupTick

SpecCleanup == InitCleanup /\ [][NextCleanup]_vars

-----------------------------------------------------------------------------
(* Claims on cleanupOldBackups *)

SweepDone(p) ==
  /\ pc[p] = "idle"
  /\ loc[p].op = "cleanupOldBackups"
  /\ ret[p].tag = "count"

\* the day of the calendar a date component names
DateIndex(c) == (CHOOSE i \in 1..Len(DateNames) : DateNames[i] = c) - 1

\* the local calendar day and the local time of day of instant t
LocalDay(t) == (t + tz) \div 86400000
LocalTimeOfDay(t) == (t + tz) % 86400000

DatedBackups(S) == {n \in S : MatchesBackupFilePattern(n)}

\* how many days before the day of the sweep the backup is dated
DaysBeforeToday(n, p) == LocalDay(loc[p].startedAt) - DateIndex(n[Len(n)])

\* C7 as stated: at whatever time of day the sweep runs, a backup dated
\* exactly maxAgeDays days before today is deleted (unless its removal
\* failed) and a backup dated maxAgeDays - 1 days before today is retained.
C7_RetentionBoundary ==
  \A p \in Procs :
    SweepDone(p) =>
      \A n \in DatedBackups(loc[p].entries) :
        /\ (DaysBeforeToday(n, p) = loc[p].maxAgeDays => n \in loc[p].removed \cup loc[p].failed)
        /\ (DaysBeforeToday(n, p) = loc[p].maxAgeDays - 1 => n \notin loc[p].removed)

\* C7 amended: a sweep that starts at any time of day after local midnight
\* deletes a backup dated exactly maxAgeDays days before today (unless its
\* removal failed); a sweep at any time of day retains a backup dated
\* maxAgeDays - 1 days before today.
C7_RetentionBoundaryAfterMidnight ==
  \A p \in Procs :
    SweepDone(p) =>
      \A n \in DatedBackups(loc[p].entries) :
        /\ (DaysBeforeToday(n, p) = loc[p].maxAgeDays /\ LocalTimeOfDay(loc[p].startedAt) > 0
              => n \in loc[p].removed \cup loc[p].failed)
        /\ (DaysBeforeToday(n, p) = loc[p].maxAgeDays /\ LocalTimeOfDay(loc[p].startedAt) = 0
              => n \notin loc[p].removed \cup loc[p].failed)
        /\ (DaysBeforeToday(n, p) = loc[p].maxAgeDays - 1 => n \notin loc[p].removed)

\* a sweep after midnight deleted the backup dated maxAgeDays days ago and
\* kept the one dated a day later
C7_Witness ==
  \E p \in Procs :
    /\ SweepDone(p)
    /\ loc[p].maxAgeDays >= 1
    /\ LocalTimeOfDay(loc[p].startedAt) > 0
    /\ \E n \in DatedBackups(loc[p].entries) :
         DaysBeforeToday(n, p) = loc[p].maxAgeDays /\ n \in loc[p].removed
    /\ \E n \in DatedBackups(loc[p].entries) :
         DaysBeforeToday(n, p) = loc[p].maxAgeDays - 1 /\ n \in DOMAIN folder

\* C8: a backup that archiveWorkingFile wrote at time t is deleted by no
\* cleanupOldBackups(maxAgeDays) call made earlier than t + maxAgeDays days.
C8_FullRetentionWindow ==
  \A p \in Procs :
    SweepDone(p) =>
      \A n \in loc[p].removed :
        n \in DOMAIN archivedAt =>
          loc[p].startedAt >= archivedAt[n] + loc[p].maxAgeDays * 86400000

\* C9: a removal that fails does not end the sweep: when it returns, every
\* expired backup it met is gone except those whose removal failed, these
\* are still in place, and the count returned is the number of entries the
\* sweep took out of the folder.
C9_SweepSurvivesFailure ==
  \A p \in Procs :
    SweepDone(p) =>
      /\ \A n \in DatedBackups(loc[p].entries) :
           parseBackupDate(n) < loc[p].cutoffDate =>
             (n \notin DOMAIN folder \/ n \in loc[p].failed)
      /\ \A n \in loc[p].failed : n \in DOMAIN folder
      /\ ret[p].val = Cardinality(loc[p].entries \ DOMAIN folder)

\* one expired backup could not be removed, another one was
C9_Witness ==
  \E p \in Procs :
    /\ SweepDone(p)
    /\ loc[p].failed # {}
    /\ loc[p].removed # {}
    /\ ret[p].val = Cardinality(loc[p].removed)

-----------------------------------------------------------------------------
(* scanFolder *)

\* String.prototype.toLowerCase on a component, and on an email
LowerComponent(c) == IF c = "A" THEN "a" ELSE IF c = "B" THEN "b" ELSE c

\* a comparison that tells letter case apart
MutToLowerCase(email) == email

toLowerCase(email) == [i \in 1..Len(email) |-> LowerComponent(email[i])]

\* extractEmailFromFileName(fileName) is not null
ExtractsEmail(fileName) == MatchesWorkingFilePattern(fileName)

\* extractEmailFromFileName(fileName)
extractEmailFromFileName(fileName) == WorkingFileEmail(fileName)

\* a handle that is null
NullHandle == <<>>

\* the entries a shared folder may hold: files and one directory
ScanEntries ==
  [n \in { BASE_FILE_NAME,
           MERGE_LOCK_FILE,
           <<"schedule", "a", "db">>,
           <<"schedule", "A", "db">>,
           <<"schedule", "b", "db">>,
           <<"schedule", "a", "db", "bak", "2025-01-01">>,
           <<"schedule", "a", "db", "bak", "2025-01-01", "db">>,
           <<"notes", "bak", "txt">>,
           <<"archive", "bak">>,
           <<"schedule", "c", "db">> } |->
     IF n \in {<<"schedule", "c", "db">>, <<"archive", "bak">>}
     THEN [kind |-> "directory", data |-> <<>>]
     ELSE File(<<1, 1>>)]

ScanUsers == {<<"a">>, <<"A">>, <<"b">>}

\* needsMerge as "more than one working file"
MutNeedsMerge(workingFiles, currentUserEmail) == Len(workingFiles) > 1

\* othersWorkingFiles.length > 0
needsMerge(workingFiles, currentUserEmail) ==
  LET othersWorkingFiles ==
        {i \in 1..Len(workingFiles) :
           toLowerCase(workingFiles[i].email) # toLowerCase(currentUserEmail)}
  IN Cardinality(othersWorkingFiles) > 0

\* scanFolder(folderHandle, currentUserEmail)
callScanFolder(p) ==
  /\ pc[p] = "idle"
  /\ \E currentUserEmail \in ScanUsers :
       loc' = [loc EXCEPT ![p] =
                 [op |-> "scanFolder", currentUserEmail |-> currentUserEmail,
                  todo |-> DOMAIN folder, baseFile |-> NullHandle,
                  workingFiles |-> <<>>, backupFiles |-> <<>>,
                  myWorkingFile |-> NullHandle]]
  /\ pc' = [pc EXCEPT ![p] = "scan_loop"]
  /\ ret' = [ret EXCEPT ![p] = NoRet]
  /\ UNCHANGED <<folder, now, tz, histVars, dlgVars>>

\* one iteration of for await (const [name, handle] of folderHandle.entries()),
\* in whatever order the directory yields its entries
scanFolder_entry(p) ==
  /\ pc[p] = "scan_loop"
  /\ \E name \in loc[p].todo :
       LET l == loc[p]
           rest == l.todo \ {name}
       IN loc' = [loc EXCEPT ![p] =
            IF name \notin DOMAIN folder \/ folder[name].kind # "file"
            THEN [l EXCEPT !.todo = rest]
            ELSE IF name = BASE_FILE_NAME
            THEN [l EXCEPT !.todo = rest, !.baseFile = name]
            ELSE IF ExtractsEmail(name)
            THEN [l EXCEPT !.todo = rest,
                           !.workingFiles = Append(@, [handle |-> name,
                                                       email |-> extractEmailFromFileName(name),
                                                       fileName |-> name]),
                           !.myWorkingFile =
                              IF toLowerCase(extractEmailFromFileName(name))
                                   = toLowerCase(l.currentUserEmail)
                              THEN name ELSE @]
            ELSE IF IncludesBackupExtension(name)
            THEN [l EXCEPT !.todo = rest, !.backupFiles = Append(@, name)]
            ELSE [l EXCEPT !.todo = rest]]
  /\ UNCHANGED <<folder, now, tz, pc, ret, histVars, dlgVars>>

\* the loop is over: needsMerge and the result
scanFolder_return(p) ==
  /\ pc[p] = "scan_loop"
  /\ loc[p].todo = {}
  /\ Returned(p, [tag |-> "scan",
                  val |-> [baseFile |-> loc[p].baseFile,
                           workingFiles |-> loc[p].workingFiles,
                           backupFiles |-> loc[p].backupFiles,
                           needsMerge |-> needsMerge(loc[p].workingFiles,
                                                     loc[p].currentUserEmail),
                           myWorkingFile |-> loc[p].myWorkingFile]])
  /\ UNCHANGED <<folder, now, tz, loc, histVars, dlgVars>>

\* any folder of at most MaxEntries entries
InitScan ==
  /\ \E S \in SUBSET (DOMAIN ScanEntries) :
       /\ Cardinality(S) <= MaxEntries
       /\ folder = [n \in S |-> ScanEntries[n]]
  /\ now = 0
  /\ tz = 0
  /\ ProcsIdle
  /\ HistIdle
  /\ DlgIdle

NextScan ==
  \/ callScanFolder("p1")
  \/ scanFolder_entry("p1")
  \/ scanFolder_return("p1")

SpecScan == InitScan /\ [][NextScan]_vars

-----------------------------------------------------------------------------
(* Claims on scanFolder *)

ScanDone(p) ==
  /\ pc[p] = "idle"
  /\ loc[p].op = "scanFolder"
  /\ ret[p].tag = "scan"

\* a file named schedule.<author>.db, and its author
IsWorkingFile(n) ==
  /\ folder[n].kind = "file"
  /\ Len(n) >= 3
  /\ n[1] = "schedule"
  /\ n[Len(n)] = "db"

AuthorOf(n) == SubSeq(n, 2, Len(n) - 1)

\* the same letters, whatever their case
SameIgnoringCase(e, f) ==
  /\ Len(e) = Len(f)
  /\ \A i \in 1..Len(e) :
       \/ e[i] = f[i]
       \/ {e[i], f[i]} = {"a", "A"}
       \/ {e[i], f[i]} = {"b", "B"}

ScannedWorking(p) ==
  {ret[p].val.workingFiles[i].fileName : i \in 1..Len(ret[p].val.workingFiles)}

ScannedBackups(p) ==
  {ret[p].val.backupFiles[i] : i \in 1..Len(ret[p].val.backupFiles)}

\* the name holds ".bak"
HasBackupMarker(n) == \E i \in 2..Len(n) : n[i] = "bak"

\* the category the classification rule gives to entry n of the folder
Category(n) ==
  IF folder[n].kind # "file" THEN "ignored"
  ELSE IF n = <<"schedule", "base">> THEN "base"
  ELSE IF IsWorkingFile(n) THEN "working"
  ELSE IF HasBackupMarker(n) THEN "backup"
  ELSE "ignored"

\* C14: scanFolder puts every entry of the folder into at most one category:
\* the file named like the base is the base, a file named
\* schedule.<author>.db is a working file of that author, any other file
\* whose name holds ".bak" is a backup, and every other entry is ignored; the
\* scan returns and raises no error.
C14_ScanClassification ==
  \A p \in Procs :
    (pc[p] = "idle" /\ loc[p].op = "scanFolder") =>
      /\ ret[p].tag = "scan"
      /\ ret[p].val.baseFile =
           (IF \E n \in DOMAIN folder : Category(n) = "base"
            THEN <<"schedule", "base">> ELSE <<>>)
      /\ ScannedWorking(p) = {n \in DOMAIN folder : Category(n) = "working"}
      /\ ScannedBackups(p) = {n \in DOMAIN folder : Category(n) = "backup"}
      /\ Len(ret[p].val.workingFiles) = Cardinality(ScannedWorking(p))
      /\ Len(ret[p].val.backupFiles) = Cardinality(ScannedBackups(p))
      /\ \A i \in 1..Len(ret[p].val.workingFiles) :
           ret[p].val.workingFiles[i].email = AuthorOf(ret[p].val.workingFiles[i].fileName)

\* a scan met a working file whose name also holds ".bak", a file with
\* ".bak" that is no dated backup, and a directory
C14_Witness ==
  \E p \in Procs :
    /\ ScanDone(p)
    /\ <<"schedule", "a", "db", "bak", "2025-01-01", "db">> \in ScannedWorking(p)
    /\ <<"notes", "bak", "txt">> \in ScannedBackups(p)
    /\ \E n \in DOMAIN folder : folder[n].kind = "directory"

-----------------------------------------------------------------------------
(* MergeConflictDialog *)

\* the conflicts a merge may report, by table and syncId
ConflictIds ==
  { [table |-> <<"t">>, syncId |-> <<"1">>],
    [table |-> <<"t">>, syncId |-> <<"2">>],
    [table |-> <<"u">>, syncId |-> <<"1">>] }

Choices == {"base", "a", "b"}

RECURSIVE ConflictLists(_)
ConflictLists(n) ==
  IF n = 0 THEN {<<>>}
  ELSE LET shorter == ConflictLists(n - 1)
       IN shorter \cup {Append(l, c) : l \in {x \in shorter : Len(x) = n - 1},
                                       c \in ConflictIds}

\* `${conflict.table}:${conflict.syncId}`
Key(c) == c.table \o <<":">> \o c.syncId

\* { ...prev, [key]: value }
WithEntry(f, k, v) == [x \in DOMAIN f \cup {k} |-> IF x = k THEN v ELSE f[x]]

NothingEmitted == [src |-> "none", calls |-> <<>>, list |-> <<>>]

\* a map that walks the conflicts backwards
MutKeepAll(conf, choice) ==
  [i \in 1..Len(conf) |->
     [syncId |-> conf[Len(conf) + 1 - i].syncId,
      table |-> conf[Len(conf) + 1 - i].table, choice |-> choice]]

\* conflicts.map(c => ({ syncId, table, choice }))
KeepAll(conf, choice) ==
  [i \in 1..Len(conf) |->
     [syncId |-> conf[i].syncId, table |-> conf[i].table, choice |-> choice]]

\* an Apply button that is never disabled
MutAllResolved(conf, res) == TRUE

\* conflicts.every(c => resolutions[key] !== undefined)
allResolved(conf, res) == \A i \in 1..Len(conf) : Key(conf[i]) \in DOMAIN res

\* resolutions[key] || 'base'
ResolutionOrBase(res, key) == IF key \in DOMAIN res THEN res[key] ELSE "base"

\* the parent renders the dialog with another conflicts list; the
\* component's state is kept
replaceConflicts ==
  /\ \E conf \in ConflictLists(MaxConflicts) :
       /\ conf # conflicts
       /\ conflicts' = conf
  /\ emitted' = NothingEmitted
  /\ UNCHANGED <<folder, now, tz, procVars, histVars, showAdvanced, resolutions, selected>>

\* "Advanced: Resolve individually..." and "Back to quick options"
setShowAdvanced(b) ==
  /\ showAdvanced = ~b
  /\ showAdvanced' = b
  /\ emitted' = NothingEmitted
  /\ UNCHANGED <<folder, now, tz, procVars, histVars, conflicts, resolutions, selected>>

\* a Radio of the RadioGroup of one conflict's row
radioChange ==
  /\ showAdvanced
  /\ \E i \in 1..Len(conflicts), value \in Choices :
       /\ resolutions' = WithEntry(resolutions, Key(conflicts[i]), value)
       /\ selected' = WithEntry(selected, conflicts[i], value)
  /\ emitted' = NothingEmitted
  /\ UNCHANGED <<folder, now, tz, procVars, histVars, conflicts, showAdvanced>>

\* setAllResolutions(choice): a new map with the keys of the conflicts shown
setAllResolutions ==
  /\ showAdvanced
  /\ \E choice \in Choices :
       LET shown == {conflicts[i] : i \in 1..Len(conflicts)}
       IN /\ resolutions' = [k \in {Key(c) : c \in shown} |-> choice]
          /\ selected' = [c \in DOMAIN selected \cup shown |->
                            IF c \in shown THEN choice ELSE selected[c]]
  /\ emitted' = NothingEmitted
  /\ UNCHANGED <<folder, now, tz, procVars, histVars, conflicts, showAdvanced>>

\* the three quick buttons, and the choice each one stands for
QuickButtons == {"handleKeepAllOriginal", "handleKeepAllA", "handleKeepAllB"}

ButtonChoice(button) ==
  IF button = "handleKeepAllOriginal" THEN "base"
  ELSE IF button = "handleKeepAllA" THEN "a" ELSE "b"

\* handleKeepAllOriginal, handleKeepAllA, handleKeepAllB
handleKeepAll ==
  /\ ~showAdvanced
  /\ \E button \in QuickButtons :
       emitted' = [src |-> button, calls |-> <<"onResolve">>,
                   list |-> KeepAll(conflicts, ButtonChoice(button))]
  /\ UNCHANGED <<folder, now, tz, procVars, histVars, conflicts, showAdvanced,
                 resolutions, selected>>

\* handleAdvancedSubmit, behind the Apply Resolutions button
handleAdvancedSubmit ==
  /\ showAdvanced
  /\ allResolved(conflicts, resolutions)
  /\ emitted' =
       [src |-> "advanced", calls |-> <<"onResolve">>,
        list |-> [i \in 1..Len(conflicts) |->
                    [syncId |-> conflicts[i].syncId,
                     table |-> conflicts[i].table,
                     choice |-> ResolutionOrBase(resolutions, Key(conflicts[i]))]]]
  /\ UNCHANGED <<folder, now, tz, procVars, histVars, conflicts, showAdvanced,
                 resolutions, selected>>

\* a dialog that takes its dismissal for "keep the original"
MutDismiss(conf) ==
  [src |-> "cancel", calls |-> <<"onResolve">>, list |-> KeepAll(conf, "base")]

\* what Cancel Merge and onOpenChange(open: false) do: onCancel()
Dismiss(conf) == [src |-> "cancel", calls |-> <<"onCancel">>, list |-> <<>>]

\* Cancel Merge, or the dialog being dismissed
onCancel ==
  /\ emitted' = Dismiss(conflicts)
  /\ UNCHANGED <<folder, now, tz, procVars, histVars, conflicts, showAdvanced,
                 resolutions, selected>>

\* the folder of a merge: the base and the working files of two authors
MergeFolder ==
  [n \in {BASE_FILE_NAME, createWorkingFileName(<<"a">>), createWorkingFileName(<<"b">>)} |->
     IF n = BASE_FILE_NAME THEN File(<<1, 1>>) ELSE File(<<2, 2>>)]

InitDialog ==
  /\ folder = MergeFolder
  /\ now = 0
  /\ tz = 0
  /\ ProcsIdle
  /\ HistIdle
  /\ conflicts \in ConflictLists(MaxConflicts)
  /\ showAdvanced = FALSE
  /\ resolutions = [k \in {} |-> "base"]
  /\ emitted = NothingEmitted
  /\ selected = [k \in {} |-> "base"]

NextDialog ==
  \/ replaceConflicts
  \/ setShowAdvanced(TRUE)
  \/ setShowAdvanced(FALSE)
  \/ radioChange
  \/ setAllResolutions
  \/ handleKeepAll
  \/ handleAdvancedSubmit
  \/ onCancel

SpecDialog == InitDialog /\ [][NextDialog]_vars

-----------------------------------------------------------------------------
(* Claims on MergeConflictDialog *)

\* C10: a list submitted through Apply Resolutions holds, for each conflict
\* shown, the choice the user selected for that conflict, whatever radio
\* selections, set-all clicks, mode toggles and replacements of the conflicts
\* list came before; no conflict the user left unresolved is given 'base'.
C10_NoSilentDefault ==
  emitted.src = "advanced" =>
    /\ Len(emitted.list) = Len(conflicts)
    /\ \A i \in 1..Len(conflicts) :
         /\ emitted.list[i].table = conflicts[i].table
         /\ emitted.list[i].syncId = conflicts[i].syncId
         /\ conflicts[i] \in DOMAIN selected
         /\ emitted.list[i].choice = selected[conflicts[i]]

\* two conflicts resolved one by one, to different choices, were applied
\* while the user had also selected a choice for a conflict no longer shown
C10_Witness ==
  /\ emitted.src = "advanced"
  /\ Len(emitted.list) = 2
  /\ emitted.list[1].choice # emitted.list[2].choice
  /\ "base" \notin {emitted.list[1].choice, emitted.list[2].choice}
  /\ \E c \in DOMAIN selected : \A i \in 1..Len(conflicts) : conflicts[i] # c

\* one resolution per conflict shown, in order, all with the one choice
UniformList(choice) ==
  [i \in 1..Len(conflicts) |->
     [syncId |-> conflicts[i].syncId, table |-> conflicts[i].table, choice |-> choice]]

\* C11: each bulk shortcut emits one resolution per conflict, in conflict
\* order, with that conflict's table and syncId and the choice of the button
\* (Original: base, A: a, B: b); the advanced path emits the very same list
\* once that choice has been selected for every conflict.
C11_BulkShortcutIsUniform ==
  /\ (emitted.src = "handleKeepAllOriginal" => emitted.list = UniformList("base"))
  /\ (emitted.src = "handleKeepAllA" => emitted.list = UniformList("a"))
  /\ (emitted.src = "handleKeepAllB" => emitted.list = UniformList("b"))
  /\ \A choice \in {"base", "a", "b"} :
       ( /\ emitted.src = "advanced"
         /\ \A i \in 1..Len(conflicts) :
              conflicts[i] \in DOMAIN selected /\ selected[conflicts[i]] = choice )
       => emitted.list = UniformList(choice)

\* Keep All from B was pressed on two different conflicts, after the user
\* had selected other choices in advanced mode
C11_Witness ==
  /\ emitted.src = "handleKeepAllB"
  /\ Len(conflicts) = 2
  /\ conflicts[1] # conflicts[2]
  /\ \E c \in DOMAIN selected : selected[c] = "a"

-----------------------------------------------------------------------------
(* Sync engine: start(intervalSeconds), forceSyncNow(), applyResolutions.  *)
(* Each process runs one engine.  loc[p].cycles maps every cycle in        *)
(* progress to its state (Scanning, Merging, AwaitingResolution); the      *)
(* engine is Idle when no cycle is in progress.                            *)

EngineIdle ==
  [op |-> "engine", cycles |-> [c \in {} |-> "Scanning"], holdsLock |-> FALSE,
   triggers |-> 0, started |-> 0, skipped |-> 0, last |-> "none"]

\* a busy test that only looks at the merge lock
MutBusy(l) == l.holdsLock

\* the previous cycle is still running, or this process holds the merge lock
Busy(l) == DOMAIN l.cycles # {} \/ l.holdsLock

\* a trigger arrives: it starts a cycle, or it is skipped when busy
Trigger(p, kind) ==
  /\ pc[p] = "engine"
  /\ loc[p].triggers < MaxTriggers
  /\ loc' = [loc EXCEPT ![p] =
       IF Busy(loc[p])
       THEN [@ EXCEPT !.triggers = @ + 1, !.skipped = @ + 1, !.last = kind]
       ELSE [@ EXCEPT !.triggers = @ + 1, !.started = @ + 1, !.last = kind,
                      !.cycles = [c \in DOMAIN @ \cup {loc[p].started + 1} |->
                                    IF c \in DOMAIN @ THEN @[c] ELSE "Scanning"]]]
  /\ UNCHANGED <<folder, now, tz, pc, ret, histVars, dlgVars>>

\* a tick of the periodic timer of start(intervalSeconds)
tick(p) == Trigger(p, "tick")

\* forceSyncNow(): one cycle outside the schedule, same skip-if-busy rule
forceSyncNow(p) == Trigger(p, "forceSyncNow")

\* cycle c of process p leaves state from: it ends (to = "Idle") or moves on
CycleStep(p, c, from, to, lock) ==
  /\ pc[p] = "engine"
  /\ c \in DOMAIN loc[p].cycles
  /\ loc[p].cycles[c] = from
  /\ loc' = [loc EXCEPT ![p] =
       [@ EXCEPT !.holdsLock = lock,
                 !.cycles = IF to = "Idle"
                            THEN [d \in DOMAIN @ \ {c} |-> @[d]]
                            ELSE [@ EXCEPT ![c] = to]]]
  /\ UNCHANGED <<folder, now, tz, pc, ret, histVars, dlgVars>>

\* Scanning -> Idle (no peer changes)
scanFoundNothing(p) ==
  \E c \in DOMAIN loc[p].cycles : CycleStep(p, c, "Scanning", "Idle", loc[p].holdsLock)

\* Scanning -> Merging, under the merge lock
scanFoundPeers(p) ==
  \E c \in DOMAIN loc[p].cycles : CycleStep(p, c, "Scanning", "Merging", TRUE)

\* Merging -> Idle (all auto-merged): the lock is removed
mergedAutomatically(p) ==
  \E c \in DOMAIN loc[p].cycles : CycleStep(p, c, "Merging", "Idle", FALSE)

\* Merging -> AwaitingResolution
conflictsSurfaced(p) ==
  \E c \in DOMAIN loc[p].cycles : CycleStep(p, c, "Merging", "AwaitingResolution", TRUE)

\* applyResolutions(resolutions), or the resolution being abandoned:
\* AwaitingResolution -> Idle, the lock is removed
applyResolutions(p) ==
  \E c \in DOMAIN loc[p].cycles : CycleStep(p, c, "AwaitingResolution", "Idle", FALSE)

\* any state -> Error -> Idle on an I/O failure; the lock may stay behind
ioError(p) ==
  \E c \in DOMAIN loc[p].cycles, from \in {"Scanning", "Merging", "AwaitingResolution"},
     lock \in BOOLEAN :
       /\ lock => loc[p].holdsLock
       /\ CycleStep(p, c, from, "Idle", lock)

\* a lock left behind is cleared once it is stale
abandonedLockCleared(p) ==
  /\ pc[p] = "engine"
  /\ loc[p].holdsLock
  /\ DOMAIN loc[p].cycles = {}
  /\ loc' = [loc EXCEPT ![p] = [@ EXCEPT !.holdsLock = FALSE]]
  /\ UNCHANGED <<folder, now, tz, pc, ret, histVars, dlgVars>>

InitEngine ==
  /\ folder = MergeFolder
  /\ now = 0
  /\ tz = 0
  /\ pc = [p \in Procs |-> "engine"]
  /\ loc = [p \in Procs |-> EngineIdle]
  /\ ret = [p \in Procs |-> NoRet]
  /\ HistIdle
  /\ DlgIdle

NextEngine ==
  \E p \in Procs :
    \/ tick(p)
    \/ forceSyncNow(p)
    \/ scanFoundNothing(p)
    \/ scanFoundPeers(p)
    \/ mergedAutomatically(p)
    \/ conflictsSurfaced(p)
    \/ applyResolutions(p)
    \/ ioError(p)
    \/ abandonedLockCleared(p)

SpecEngine == InitEngine /\ [][NextEngine]_vars

-----------------------------------------------------------------------------
(* Claims on the sync engine *)

CyclesInProgress(l) == Cardinality(DOMAIN l.cycles)

\* C13: the cycles of one engine never overlap: a tick or forceSyncNow()
\* that arrives while a cycle is running or while the process holds the
\* merge lock starts nothing; at most one cycle is in progress; and a cycle
\* starts only in the step in which a trigger arrives, so that no skipped
\* trigger runs later on its own.
C13_NoOverlappingCycles ==
  [][\A p \in Procs :
       /\ CyclesInProgress(loc'[p]) <= 1
       /\ ( loc'[p].triggers > loc[p].triggers
            /\ (CyclesInProgress(loc[p]) > 0 \/ loc[p].holdsLock) )
          => /\ loc'[p].cycles = loc[p].cycles
             /\ loc'[p].started = loc[p].started
       /\ loc'[p].started > loc[p].started => loc'[p].triggers > loc[p].triggers]_vars

\* triggers were skipped, both while a cycle awaited resolution and while
\* only the lock was held, and a later trigger started a second cycle
C13_Witness ==
  \E p \in Procs :
    /\ loc[p].skipped >= 1
    /\ loc[p].last = "forceSyncNow"
    /\ loc[p].started = 2
    /\ CyclesInProgress(loc[p]) = 1

-----------------------------------------------------------------------------
(* shouldCheckpoint.  A lastCheckpointStr is null, the empty string, an    *)
(* ISO timestamp (of instant ms) or a text that is no date.                *)

NullStr == [kind |-> "null", ms |-> 0]
EmptyStr == [kind |-> "empty", ms |-> 0]
InvalidDateStr == [kind |-> "invalid", ms |-> 0]
ISOStr(t) == [kind |-> "iso", ms |-> t]

\* !lastCheckpointStr
IsFalsy(str) == str.kind \in {"null", "empty"}

\* new Date(str).getTime() is NaN
DateIsNaN(str) == str.kind # "iso"

\* new Date(str).getTime()
DateGetTime(str) == str.ms

\* shouldCheckpoint(lastCheckpointStr, maxDays) at instant t; new Date never
\* throws, and a comparison with NaN is false
shouldCheckpoint(lastCheckpointStr, maxDays, t) ==
  IF IsFalsy(lastCheckpointStr) THEN TRUE
  ELSE IF DateIsNaN(lastCheckpointStr) THEN FALSE
  ELSE (t - DateGetTime(lastCheckpointStr)) >= maxDays * (24 * 60 * 60 * 1000)

\* the instants around whole days
InstantsAroundDays(maxDay) ==
  {d * DayMs + e : d \in 0..maxDay, e \in {0 - 1, 0, 1}} \cap Nat

CheckpointStrs ==
  {NullStr, EmptyStr, InvalidDateStr} \cup {ISOStr(t) : t \in {0, 1, DayMs}}

callShouldCheckpoint(p) ==
  /\ pc[p] = "idle"
  /\ \E lastCheckpointStr \in CheckpointStrs, maxDays \in 0..MaxCheckpointDays :
       /\ loc' = [loc EXCEPT ![p] = [op |-> "shouldCheckpoint",
                                     lastCheckpointStr |-> lastCheckpointStr,
                                     maxDays |-> maxDays]]
       /\ ret' = [ret EXCEPT ![p] =
                    [tag |-> "bool",
                     val |-> shouldCheckpoint(lastCheckpointStr, maxDays, now)]]
  /\ UNCHANGED <<folder, now, tz, pc, histVars, dlgVars>>

InitCheckpoint ==
  /\ folder = EmptyFolder
  /\ now \in InstantsAroundDays(MaxCheckpointDays + 1)
  /\ tz = 0
  /\ ProcsIdle
  /\ HistIdle
  /\ DlgIdle

NextCheckpoint == callShouldCheckpoint("p1")

SpecCheckpoint == InitCheckpoint /\ [][NextCheckpoint]_vars

-----------------------------------------------------------------------------
(* Claims on shouldCheckpoint *)

CheckpointAsked(p) == loc[p].op = "shouldCheckpoint"

\* the time elapsed since the checkpoint is more than n days
ElapsedExceeds(p, n) == now - loc[p].lastCheckpointStr.ms > n * 86400000

\* C17: shouldCheckpoint returns true when there is no prior checkpoint or
\* when the time elapsed since lastCheckpoint exceeds maxDays days, and false
\* when a prior checkpoint exists and the elapsed time does not exceed
\* maxDays days.
C17_CheckpointWhenExceeded ==
  \A p \in Procs :
    CheckpointAsked(p) =>
      /\ loc[p].lastCheckpointStr.kind = "null" => ret[p].val
      /\ loc[p].lastCheckpointStr.kind = "iso" =>
           (ret[p].val <=> ElapsedExceeds(p, loc[p].maxDays))

-----------------------------------------------------------------------------
(* checkMergeLock on a lock file of any content: a shared folder may hold  *)
(* a lock file that another program, a partial upload or a failed write    *)
(* left damaged.                                                           *)

\* the texts a lock file may hold: a lock written at instant 0, the empty
\* text, a lock whose text goes on after the document, and documents whose
\* startedAt is absent or no date
LockTexts ==
  LET written == [email |-> <<"b">>, startedAt |-> 0, workingFiles |-> AllWorkingFileNames]
  IN { JSONstringify(written),
       <<>>,
       <<written, written>>,
       <<[email |-> <<"b">>, startedAt |-> NaN, workingFiles |-> AllWorkingFileNames]>>,
       <<[email |-> <<>>, startedAt |-> NaN, workingFiles |-> <<>>]>> }

InitCorruptLock ==
  /\ \E text \in LockTexts :
       folder = [n \in {BASE_FILE_NAME, MERGE_LOCK_FILE} |->
                   IF n = BASE_FILE_NAME THEN File(<<1, 1>>) ELSE File(text)]
  /\ now \in {0, LockTick}
  /\ tz = 0
  /\ ProcsIdle
  /\ HistIdle
  /\ DlgIdle

SpecCorruptLock == InitCorruptLock /\ [][NextLock]_vars

-----------------------------------------------------------------------------
(* Claims on a corrupt lock *)

\* the text is no structured document, or its startedAt is no timestamp
Unparseable(text) == Len(text) # 1 \/ text[1].startedAt < 0

\* C18: when the content of the lock file is unparseable (no valid
\* structured text, or without a valid startedAt timestamp), checkMergeLock
\* returns no lock and raises no error.
C18_CorruptLockIsNoLock ==
  [][\A p \in Procs :
       (CheckReads(p) /\ LockName \in DOMAIN folder /\ Unparseable(folder[LockName].data))
         => (pc'[p] = "chk_done" /\ ret'[p].tag = "null")]_vars

-----------------------------------------------------------------------------
(* MergeDialog: analyzeDbDifferences.  A database maps each table either   *)
(* to the list of its rows, as SELECT * ... ORDER BY 1 yields them, or to  *)
(* "missing" when it has no such table (exec then throws).  A row is the   *)
(* sequence of its column values.                                          *)

ALL_DATA_TABLES == <<"person", "role">>

RowValues == {<<"1", "x">>, <<"2", "y">>}

\* ORDER BY 1
OrderedBy1(rows) ==
  \A i \in 1..(Len(rows) - 1) : rows[i] = rows[i + 1] \/ rows[i][1] = "1"

RECURSIVE RowLists(_)
RowLists(n) ==
  IF n = 0 THEN {<<>>}
  ELSE LET shorter == RowLists(n - 1)
       IN shorter \cup {l \in {Append(x, r) : x \in {y \in shorter : Len(y) = n - 1},
                                            r \in RowValues} : OrderedBy1(l)}

TableContents == [exists : {TRUE}, rows : RowLists(MaxRows)]
                   \cup {[exists |-> FALSE, rows |-> <<>>]}

Databases == [{ALL_DATA_TABLES[i] : i \in 1..Len(ALL_DATA_TABLES)} -> TableContents]

\* hashRow(row) = JSON.stringify(row)
hashRow(row) == <<"[">> \o row \o <<"]">>

\* new Set(rows.map(hashRow))
HashSet(rows) == {hashRow(rows[i]) : i \in 1..Len(rows)}

\* the delta taken the other way round
MutCountDelta(myCount, theirCount) == myCount - theirCount

\* const diff = theirCount - myCount
CountDelta(myCount, theirCount) == theirCount - myCount

\* the details of a count difference: who has more rows, and how many
CountDetails(diff) ==
  IF diff > 0
  THEN [text |-> "Their version has more row(s)", n |-> diff, m |-> 0]
  ELSE [text |-> "Your version has more row(s)", n |-> 0 - diff, m |-> 0]

NoDetails == [text |-> "", n |-> 0, m |-> 0]

\* one iteration of the loop over ALL_DATA_TABLES, for a table both
\* databases have
TableDiffOf(table, mine, theirs) ==
  LET myCount == Len(mine)
      theirCount == Len(theirs)
      myHashes == HashSet(mine)
      theirHashes == HashSet(theirs)
      onlyInMine == Cardinality(myHashes \ theirHashes)
      onlyInTheirs == Cardinality(theirHashes \ myHashes)
  IN IF myCount # theirCount
     THEN [table |-> table, myCount |-> myCount, theirCount |-> theirCount,
           hasDifferences |-> TRUE, differenceType |-> "count",
           differenceDetails |-> CountDetails(CountDelta(myCount, theirCount))]
     ELSE IF myCount > 0 /\ (onlyInMine > 0 \/ onlyInTheirs > 0)
     THEN [table |-> table, myCount |-> myCount, theirCount |-> theirCount,
           hasDifferences |-> TRUE, differenceType |-> "content",
           differenceDetails |-> [text |-> "row(s) only in yours, row(s) only in theirs",
                                  n |-> onlyInMine, m |-> onlyInTheirs]]
     ELSE [table |-> table, myCount |-> myCount, theirCount |-> theirCount,
           hasDifferences |-> FALSE, differenceType |-> "none",
           differenceDetails |-> NoDetails]

\* the diffs of the first k tables; a table that one database lacks makes
\* exec throw and is left out
RECURSIVE DiffsUpTo(_, _, _)
DiffsUpTo(k, myDb, theirDb) ==
  IF k = 0 THEN <<>>
  ELSE LET table == ALL_DATA_TABLES[k]
           before == DiffsUpTo(k - 1, myDb, theirDb)
       IN IF myDb[table].exists /\ theirDb[table].exists
          THEN Append(before, TableDiffOf(table, myDb[table].rows, theirDb[table].rows))
          ELSE before

\* useEffect: open && myDb && theirDb => analyzeDbDifferences()
analyzeDbDifferences(p) ==
  /\ pc[p] = "idle"
  /\ \E myDb \in Databases, theirDb \in Databases :
       LET diffs == DiffsUpTo(Len(ALL_DATA_TABLES), myDb, theirDb)
       IN loc' = [loc EXCEPT ![p] =
                    [op |-> "analyzeDbDifferences", myDb |-> myDb, theirDb |-> theirDb,
                     loading |-> FALSE, tableDiffs |-> diffs,
                     choices |-> [t \in {diffs[i].table : i \in 1..Len(diffs)} |-> "mine"]]]
  /\ pc' = [pc EXCEPT ![p] = "merge_dialog"]
  /\ UNCHANGED <<folder, now, tz, ret, histVars, dlgVars>>

InitCompare ==
  /\ folder = EmptyFolder
  /\ now = 0
  /\ tz = 0
  /\ ProcsIdle
  /\ HistIdle
  /\ DlgIdle

NextCompare == analyzeDbDifferences("p1")

SpecCompare == InitCompare /\ [][NextCompare]_vars

(* Claims about the whole-database comparison *)

Analyzed(p) == pc[p] = "merge_dialog" /\ loc[p].op = "analyzeDbDifferences"

TableNames == {ALL_DATA_TABLES[i] : i \in 1..Len(ALL_DATA_TABLES)}

\* the tables both snapshots have
Compared(p) == {t \in TableNames : loc[p].myDb[t].exists /\ loc[p].theirDb[t].exists}

MyRows(p, t) == loc[p].myDb[t].rows

TheirRows(p, t) == loc[p].theirDb[t].rows

\* the entries reported for table t
Reported(p, t) ==
  {loc[p].tableDiffs[i] : i \in {j \in 1..Len(loc[p].tableDiffs) : loc[p].tableDiffs[j].table = t}}

\* how often hash h occurs among the hashes of rows
Occurrences(rows, h) == Cardinality({i \in 1..Len(rows) : hashRow(rows[i]) = h})

RowHashes == {hashRow(r) : r \in RowValues}

SameHashMultiset(a, b) == \A h \in RowHashes : Occurrences(a, h) = Occurrences(b, h)

\* the number of rows of a that have no counterpart in b
RECURSIVE SurplusOver(_, _, _)
SurplusOver(a, b, hs) ==
  IF hs = {} THEN 0
  ELSE LET h == CHOOSE x \in hs : TRUE
           d == Occurrences(a, h) - Occurrences(b, h)
       IN (IF d > 0 THEN d ELSE 0) + SurplusOver(a, b, hs \ {h})

PresentOnlyIn(a, b) == SurplusOver(a, b, RowHashes)

\* C19: for every table with the same row count in both snapshots, the
\* table is reported as having no differences if and only if the two
\* snapshots hold the same multiset of row hashes; otherwise a content
\* difference is reported whose two numbers are the count of rows present
\* only in mine and the count of rows present only in theirs.
C19_EqualCountsCompareMultisets ==
  \A p \in Procs : Analyzed(p) =>
    \A t \in Compared(p) : Len(MyRows(p, t)) = Len(TheirRows(p, t)) =>
      \A d \in Reported(p, t) :
        IF SameHashMultiset(MyRows(p, t), TheirRows(p, t))
        THEN ~d.hasDifferences /\ d.differenceType = "none"
        ELSE /\ d.hasDifferences
             /\ d.differenceType = "content"
             /\ d.differenceDetails.n = PresentOnlyIn(MyRows(p, t), TheirRows(p, t))
             /\ d.differenceDetails.m = PresentOnlyIn(TheirRows(p, t), MyRows(p, t))

\* C20: for every table whose row counts differ between the snapshots,
\* exactly one entry is reported, a count difference that names their
\* version with the surplus when they have more rows and your version with
\* the surplus when you have more, whatever the rows hold; a table with no
\* rows on either side is reported as having no differences.
C20_UnequalCountsReportSignedDelta ==
  \A p \in Procs : Analyzed(p) =>
    \A t \in Compared(p) :
      LET mine == Len(MyRows(p, t))
          theirs == Len(TheirRows(p, t))
      IN /\ mine # theirs =>
              /\ Cardinality(Reported(p, t)) = 1
              /\ \A d \in Reported(p, t) :
                   /\ d.hasDifferences
                   /\ d.differenceType = "count"
                   /\ d.myCount = mine /\ d.theirCount = theirs
                   /\ d.differenceDetails.text =
                        (IF theirs > mine THEN "Their version has more row(s)"
                                          ELSE "Your version has more row(s)")
                   /\ d.differenceDetails.n =
                        (IF theirs > mine THEN theirs - mine ELSE mine - theirs)
         /\ (mine = 0 /\ theirs = 0) =>
              /\ Cardinality(Reported(p, t)) = 1
              /\ \A d \in Reported(p, t) :
                   ~d.hasDifferences /\ d.differenceType = "none"

\* one comparison met a table where they have more rows, and one where you
\* have more; a table empty on both sides was compared too
C20_Witness ==
  \E p \in Procs : Analyzed(p) /\
    \E t, u \in Compared(p) :
      /\ Len(TheirRows(p, t)) > Len(MyRows(p, t)) + 1
      /\ MyRows(p, t) # <<>>
      /\ HashSet(MyRows(p, t)) # HashSet(TheirRows(p, t))
      /\ Len(MyRows(p, u)) = 0 /\ Len(TheirRows(p, u)) = 0

-----------------------------------------------------------------------------
(* MergeConflictDialog: getDifferences.  A value carries its JavaScript    *)
(* type and the text String(value) gives for it (for an object, the text   *)
(* JSON.stringify gives); a row maps field names to values, and reading a  *)
(* field the row does not have gives undefined.                            *)

Undefined == [type |-> "undefined", text |-> "undefined"]

NullValue == [type |-> "null", text |-> "null"]

FieldValues ==
  { NullValue,
    [type |-> "number", text |-> "1"],
    [type |-> "number", text |-> "2"],
    [type |-> "string", text |-> "1"],
    [type |-> "string", text |-> "(empty)"],
    [type |-> "string", text |-> "x"] }

\* the field names in the order Object.keys yields them
FieldOrder == <<"sync_id", "modified_by", "name", "note">>

BookkeepingFields == {"sync_id", "modified_at", "modified_by"}

Authors == {[type |-> "string", text |-> "a"], [type |-> "string", text |-> "b"]}

\* the rows of a conflict: a row always has its bookkeeping fields, and
\* may or may not have each data field
ConflictRows ==
  {r \in UNION {[D -> FieldValues \cup Authors] :
                  D \in {{"sync_id", "modified_by"} \cup E : E \in SUBSET {"name", "note"}}} :
     /\ r["sync_id"] = [type |-> "string", text |-> "1"]
     /\ r["modified_by"] \in Authors
     /\ \A k \in DOMAIN r \ {"sync_id", "modified_by"} : r[k] \in FieldValues}

NullRow == [k \in {} |-> Undefined]

\* row[key]
Field(row, key) == IF key \in DOMAIN row THEN row[key] ELSE Undefined

\* formatValue
formatValue(value) ==
  IF value.type \in {"null", "undefined"} THEN "(empty)"
  ELSE IF value.type = "object" THEN value.text
  ELSE value.text

\* new Set([...Object.keys(rowA), ...Object.keys(rowB)]) in insertion order
AllKeys(rowA, rowB) ==
  SelectSeq(FieldOrder, LAMBDA k : k \in DOMAIN rowA)
    \o SelectSeq(FieldOrder, LAMBDA k : k \in DOMAIN rowB /\ k \notin DOMAIN rowA)

\* key === 'sync_id' || key === 'modified_at' || key === 'modified_by'
Skipped(key) == key \in BookkeepingFields

\* getDifferences
getDifferences(rowA, rowB) ==
  IF rowA = NullRow \/ rowB = NullRow THEN <<>>
  ELSE SelectSeq(AllKeys(rowA, rowB),
                 LAMBDA key : /\ ~Skipped(key)
                              /\ formatValue(Field(rowA, key)) # formatValue(Field(rowB, key)))

\* the advanced view renders the row of one conflict
renderConflictRow(p) ==
  /\ pc[p] = "idle"
  /\ \E rowA \in ConflictRows \cup {NullRow}, rowB \in ConflictRows \cup {NullRow} :
       loc' = [loc EXCEPT ![p] = [op |-> "getDifferences", rowA |-> rowA, rowB |-> rowB,
                                  diffs |-> getDifferences(rowA, rowB)]]
  /\ pc' = [pc EXCEPT ![p] = "rendered"]
  /\ UNCHANGED <<folder, now, tz, ret, histVars, dlgVars>>

InitDifferences ==
  /\ folder = EmptyFolder
  /\ now = 0
  /\ tz = 0
  /\ ProcsIdle
  /\ HistIdle
  /\ DlgIdle

NextDifferences == renderConflictRow("p1")

SpecDifferences == InitDifferences /\ [][NextDifferences]_vars

(* Claims about getDifferences *)

Rendered(p) == pc[p] = "rendered" /\ loc[p].op = "getDifferences"

Listed(p) == {loc[p].diffs[i] : i \in 1..Len(loc[p].diffs)}

DataFields == {"name", "note"}

\* the data fields whose values in the two rows are not equal; a field
\* only one row has is among them
Unequal(rowA, rowB) ==
  {k \in DataFields :
     \/ (k \in DOMAIN rowA) # (k \in DOMAIN rowB)
     \/ k \in DOMAIN rowA /\ k \in DOMAIN rowB /\ rowA[k] # rowB[k]}

\* C21: for every conflict whose rowA and rowB are both present, the
\* fields listed as differing are exactly the fields, other than sync_id,
\* modified_at and modified_by, whose values in rowA and rowB are not equal,
\* a field present in only one row included.
C21_DifferencesAreUnequalFields ==
  \A p \in Procs :
    (Rendered(p) /\ loc[p].rowA # NullRow /\ loc[p].rowB # NullRow)
      => Listed(p) = Unequal(loc[p].rowA, loc[p].rowB)

-----------------------------------------------------------------------------
(* archiveWorkingFile racing with the owner's saveToWorkingFile: the owner *)
(* keeps saving to its working file while another process archives it.     *)

NextArchiveRace ==
  \/ \E p \in Procs : ~InUse(createWorkingFileName(Email(p))) /\ callCreateWorkingFileFromBase(p)
  \/ \E p \in Procs : createWorkingFileFromBase_getFile(p)
  \/ \E p \in Procs : createWorkingFileFromBase_arrayBuffer(p)
  \/ \E p \in Procs : createWorkingFileFromBase_getFileHandle(p)
  \/ \E p \in Procs : createWorkingFileFromBase_write(p)
  \/ \E p \in Procs : saveToWorkingFile(p)
  \/ \E p \in Procs : callArchiveWorkingFile(p)
  \/ \E p \in Procs : archiveWorkingFile_getFile(p)
  \/ \E p \in Procs : archiveWorkingFile_arrayBuffer(p)
  \/ \E p \in Procs : archiveWorkingFile_getFileHandle(p)
  \/ \E p \in Procs : archiveWorkingFile_write(p)
  \/ \E p \in Procs : archiveWorkingFile_removeEntry(p)

SpecArchiveRace == InitArchive /\ [][NextArchiveRace]_vars

\* process q deletes the original of its archive in this step
DeletesOriginal(q) ==
  /\ pc[q] = "ar_remove"
  /\ Exists(loc[q].fileName)
  /\ loc[q].fileName \notin DOMAIN folder'

\* C22: no saved edit is lost to archiving: whenever archiveWorkingFile
\* deletes the original, the backup holds the bytes the original holds at
\* that moment, so the owner's last completed save is in the working file
\* or in the backup.
C22_NoSavedEditLost ==
  [][\A q \in Procs : DeletesOriginal(q) =>
       /\ Exists(loc[q].backupFileName)
       /\ folder[loc[q].backupFileName].data = folder[loc[q].fileName].data]_vars

-----------------------------------------------------------------------------
(* cleanupOldBackups on a folder of any content *)

\* the entries a shared folder may hold when the sweep begins
CleanupEntries ==
  [n \in { BASE_FILE_NAME,
           MERGE_LOCK_FILE,
           <<"schedule", "a", "db">>,
           <<"schedule", "a", "db", "bak", "2025-01-01">>,
           <<"schedule", "b", "db", "bak", "2025-01-01">>,
           <<"schedule", "b", "db", "bak", "2025-01-04">>,
           <<"schedule", "a", "db", "bak", "2025-01-01", "db">>,
           <<"schedule", "a", "db", "bak", "old">>,
           <<"notes", "bak", "2025-01-01">>,
           <<"schedule", "c", "db", "bak", "2025-01-01">> } |->
     IF n = <<"schedule", "c", "db", "bak", "2025-01-01">>
     THEN [kind |-> "directory", data |-> <<>>]
     ELSE File(<<Len(n), 1>>)]

\* any folder of at most MaxEntries entries, on 2025-01-04, in either
\* time zone
InitCleanupAny ==
  /\ \E S \in SUBSET (DOMAIN CleanupEntries) :
       /\ Cardinality(S) <= MaxEntries
       /\ folder = [n \in S |-> CleanupEntries[n]]
  /\ now = 3 * DayMs + TickMs
  /\ tz \in TzOffsets
  /\ ProcsIdle
  /\ HistIdle
  /\ DlgIdle

NextCleanupAny ==
  \/ callCleanupOldBackups("p1")
  \/ cleanupOldBackups_entry("p1")
  \/ cleanupOldBackups_return("p1")

SpecCleanupAny == InitCleanupAny /\ [][NextCleanupAny]_vars

\* a name of the form schedule.<author>.db.bak.<YYYY-MM-DD>
DatedBackupName(n) ==
  /\ Len(n) >= 5
  /\ n[1] = "schedule"
  /\ n[Len(n) - 2] = "db"
  /\ n[Len(n) - 1] = "bak"
  /\ n[Len(n)] \in {"2025-01-01", "2025-01-02", "2025-01-03", "2025-01-04", "2025-01-05",
                    "2025-01-06", "2025-01-07", "2025-01-08", "2025-01-09", "2025-01-10"}

\* C25: cleanupOldBackups never deletes anything but a dated backup: every
\* entry a step of it removes is a file named
\* schedule.<author>.db.bak.<YYYY-MM-DD>, and the base, the merge lock, the
\* working files and every other entry stay in place with their bytes.
C25_CleanupDeletesOnlyDatedBackups ==
  [][\A p \in Procs : pc[p] = "cl_loop" =>
       /\ \A n \in DOMAIN folder \ DOMAIN folder' :
            DatedBackupName(n) /\ folder[n].kind = "file"
       /\ \A n \in DOMAIN folder' : n \in DOMAIN folder /\ folder'[n] = folder[n]
       /\ \A n \in DOMAIN folder : ~DatedBackupName(n) => n \in DOMAIN folder']_vars

\* a sweep removed a dated backup and left a file in place whose name holds
\* ".bak" and an old date without being a dated backup
C25_Witness ==
  \E p \in Procs :
    /\ pc[p] = "idle"
    /\ loc[p].op = "cleanupOldBackups"
    /\ loc[p].removed # {}
    /\ \E n \in DOMAIN folder :
         /\ folder[n].kind = "file"
         /\ ~DatedBackupName(n)
         /\ n[Len(n)] = "2025-01-01"

\* C27: shouldCheckpoint returns true whenever the stored last-checkpoint
\* value cannot be read as a timestamp: for a lastCheckpointStr that is
\* null, empty or no parseable date, and every maxDays, the result is true.
C27_UnreadableCheckpointMeansCheckpoint ==
  \A p \in Procs :
    (CheckpointAsked(p) /\ loc[p].lastCheckpointStr.kind \in {"null", "empty", "invalid"})
      => ret[p].val = TRUE

-----------------------------------------------------------------------------
(* Claims on the consistency of scanFolder's result *)

\* the working files the scan returned whose author is e, and those whose
\* author is e up to letter case
EntriesOf(p, e) ==
  {i \in 1..Len(ret[p].val.workingFiles) : ret[p].val.workingFiles[i].email = e}

EntriesOfIgnoringCase(p, e) ==
  {i \in 1..Len(ret[p].val.workingFiles) :
     SameIgnoringCase(ret[p].val.workingFiles[i].email, e)}

-----------------------------------------------------------------------------
(* MergeDialog: the choices and "Merge & Save" *)

\* the databases the dialog is opened with: tables of at most one row
DialogDatabases ==
  {db \in Databases : \A t \in DOMAIN db : Len(db[t].rows) <= 1}

\* an analysis that proposes the other user's version
MutInitialChoice(table) == "theirs"

\* initialChoices[table.name] = "mine"
InitialChoice(table) == "mine"

\* tableDiffs.filter((t) => t.hasDifferences)
tablesWithDifferences(l) ==
  {l.tableDiffs[i].table : i \in {j \in 1..Len(l.tableDiffs) : l.tableDiffs[j].hasDifferences}}

\* useEffect on [open, myDb, theirDb]: the dialog is opened, or its
\* databases are replaced while it is open, and the analysis starts over
openMergeDialog(p) ==
  /\ pc[p] \in {"idle", "merge_dialog"}
  /\ \E myDb \in DialogDatabases, theirDb \in DialogDatabases :
       LET diffs == DiffsUpTo(Len(ALL_DATA_TABLES), myDb, theirDb)
       IN loc' = [loc EXCEPT ![p] =
                    [op |-> "analyzeDbDifferences", myDb |-> myDb, theirDb |-> theirDb,
                     loading |-> FALSE, tableDiffs |-> diffs,
                     choices |-> [t \in {diffs[i].table : i \in 1..Len(diffs)} |->
                                    InitialChoice(t)]]]
  /\ pc' = [pc EXCEPT ![p] = "merge_dialog"]
  /\ selected' = [k \in {} |-> "mine"]
  /\ UNCHANGED <<folder, now, tz, ret, histVars, conflicts, showAdvanced, resolutions, emitted>>

\* a radio of a table with differences: handleChoiceChange(table, value)
handleChoiceChange(p) ==
  /\ pc[p] = "merge_dialog"
  /\ ~loc[p].loading
  /\ \E table \in tablesWithDifferences(loc[p]), value \in {"mine", "theirs"} :
       /\ loc' = [loc EXCEPT ![p].choices = WithEntry(@, table, value)]
       /\ selected' = WithEntry(selected, table, value)
  /\ UNCHANGED <<folder, now, tz, pc, ret, histVars, conflicts, showAdvanced, resolutions, emitted>>

\* Object.entries(choices).map(([table, choice]) => ({ table, choice })):
\* the keys in the order the analysis inserted them
mergeChoices(choices) ==
  LET keys == SelectSeq(ALL_DATA_TABLES, LAMBDA t : t \in DOMAIN choices)
  IN [i \in 1..Len(keys) |-> [table |-> keys[i], choice |-> choices[keys[i]]]]

\* "Merge & Save", rendered when tablesWithDifferences.length > 0 and
\* enabled when not loading: handleMerge
handleMerge(p) ==
  /\ pc[p] = "merge_dialog"
  /\ tablesWithDifferences(loc[p]) # {}
  /\ ~loc[p].loading
  /\ emitted' = [src |-> "merge", calls |-> <<"onMerge">>,
                 list |-> mergeChoices(loc[p].choices)]
  /\ UNCHANGED <<folder, now, tz, procVars, histVars, conflicts, showAdvanced,
                 resolutions, selected>>

InitMergeDialog ==
  /\ folder = EmptyFolder
  /\ now = 0
  /\ tz = 0
  /\ ProcsIdle
  /\ HistIdle
  /\ DlgIdle

NextMergeDialog ==
  \/ openMergeDialog("p1")
  \/ handleChoiceChange("p1")
  \/ handleMerge("p1")

SpecMergeDialog == InitMergeDialog /\ [][NextMergeDialog]_vars

(* Claims on the whole-database merge dialog *)

\* the tables the last analysis compared that differ in their rows
Differing(p) == {t \in Compared(p) : MyRows(p, t) # TheirRows(p, t)}

\* C29: the choices "Merge & Save" emits hold exactly one entry per table
\* the analysis compared, with the choice the user selected for the table
\* since that analysis and "mine" for every table the user did not switch;
\* and "Merge & Save" emits only when at least one table has differences.
C29_TheirsOnlyWhenSelected ==
  [][\A p \in Procs :
       (pc[p] = "merge_dialog" /\ emitted' # emitted) =>
         LET l == emitted'.list
         IN /\ emitted'.calls = <<"onMerge">>
            /\ {l[i].table : i \in 1..Len(l)} = Compared(p)
            /\ Len(l) = Cardinality(Compared(p))
            /\ \A i \in 1..Len(l) :
                 l[i].choice = (IF l[i].table \in DOMAIN selected
                                THEN selected[l[i].table] ELSE "mine")
            /\ Differing(p) # {}]_vars

\* "Merge & Save" emitted "theirs" for the one table the user switched
\* and "mine" for the other table, which has no differences
C29_Witness ==
  /\ emitted.src = "merge"
  /\ Len(emitted.list) = 2
  /\ \E i, j \in 1..2 :
       /\ emitted.list[i].choice = "theirs"
       /\ emitted.list[j].choice = "mine"
       /\ emitted.list[j].table \notin Differing("p1")
       /\ pc["p1"] = "merge_dialog"

-----------------------------------------------------------------------------
(* SpecialEvents: the menu items of the selected event.  rows is the       *)
(* content of special_event_menu_item for that event; menuItems is the     *)
(* result of SELECT ... ORDER BY sort_order, which leaves the order of     *)
(* rows with equal sort_order open.                                        *)

NoEditing == [open |-> FALSE, sort_order |-> 0]

NoMove == [moved |-> FALSE, before |-> <<>>, index |-> 0, swapIndex |-> 0]

\* SELECT * FROM special_event_menu_item WHERE event_id = ? ORDER BY sort_order
MenuItemsOf(rows) ==
  {o \in [1..Cardinality(rows) -> rows] :
     /\ \A i, j \in DOMAIN o : i # j => o[i] # o[j]
     /\ \A i, j \in DOMAIN o : i < j => o[i].sort_order <= o[j].sort_order}

\* handleCreateMenuItem: the dialog opens on a new item whose sort_order
\* is menuItems.length
handleCreateMenuItem(p) ==
  /\ pc[p] = "menu"
  /\ ~loc[p].editing.open
  /\ Cardinality(loc[p].rows) < MaxItems
  /\ loc[p].nextId <= MaxCreated
  /\ loc' = [loc EXCEPT ![p].editing = [open |-> TRUE,
                                        sort_order |-> Cardinality(loc[p].rows)],
                        ![p].lastMove = NoMove]
  /\ UNCHANGED <<folder, now, tz, pc, ret, histVars, dlgVars>>

\* handleSaveMenuItem for a new item with a name: INSERT, refreshCaches
handleSaveMenuItem(p) ==
  /\ pc[p] = "menu"
  /\ loc[p].editing.open
  /\ \E is_header \in {0, 1} :
       loc' = [loc EXCEPT ![p].rows = @ \cup {[id |-> loc[p].nextId,
                                              sort_order |-> loc[p].editing.sort_order,
                                              is_header |-> is_header]},
                          ![p].nextId = @ + 1,
                          ![p].editing = NoEditing]
  /\ UNCHANGED <<folder, now, tz, pc, ret, histVars, dlgVars>>

\* confirmDeleteAction for a menu item: DELETE ... WHERE id=?, refreshCaches
confirmDeleteAction(p) ==
  /\ pc[p] = "menu"
  /\ ~loc[p].editing.open
  /\ \E r \in loc[p].rows :
       loc' = [loc EXCEPT ![p].rows = @ \ {r}, ![p].lastMove = NoMove]
  /\ UNCHANGED <<folder, now, tz, pc, ret, histVars, dlgVars>>

\* getSectionBounds(index).sectionStart
sectionStart(menuItems, index) ==
  LET headers == {i \in 1..index : menuItems[i].is_header = 1}
  IN IF headers = {} THEN 1
     ELSE (CHOOSE i \in headers : \A j \in headers : j <= i) + 1

\* getSectionBounds(index).sectionEnd
sectionEnd(menuItems, index) ==
  LET headers == {i \in (index + 1)..Len(menuItems) : menuItems[i].is_header = 1}
  IN IF headers = {} THEN Len(menuItems)
     ELSE (CHOOSE i \in headers : \A j \in headers : i <= j) - 1

\* the two UPDATEs of handleMoveMenuItem
SwapSortOrder(rows, item, swapItem) ==
  {IF r.id = item.id THEN [r EXCEPT !.sort_order = swapItem.sort_order]
   ELSE IF r.id = swapItem.id THEN [r EXCEPT !.sort_order = item.sort_order]
   ELSE r : r \in rows}

\* an arrow of a menu item that is not disabled: handleMoveMenuItem
handleMoveMenuItem(p) ==
  /\ pc[p] = "menu"
  /\ ~loc[p].editing.open
  /\ \E menuItems \in MenuItemsOf(loc[p].rows) :
     \E currentIndex \in 1..Len(menuItems), direction \in {"up", "down"} :
       LET swapIndex == IF direction = "up" THEN currentIndex - 1 ELSE currentIndex + 1
       IN /\ menuItems[currentIndex].is_header = 0
          /\ ~(direction = "up" /\ currentIndex <= sectionStart(menuItems, currentIndex))
          /\ ~(direction = "down" /\ currentIndex >= sectionEnd(menuItems, currentIndex))
          /\ swapIndex \in 1..Len(menuItems)
          /\ loc' = [loc EXCEPT
                       ![p].rows = SwapSortOrder(@, menuItems[currentIndex], menuItems[swapIndex]),
                       ![p].lastMove = [moved |-> TRUE, before |-> menuItems,
                                        index |-> currentIndex, swapIndex |-> swapIndex]]
  /\ UNCHANGED <<folder, now, tz, pc, ret, histVars, dlgVars>>

\* an event without menu items is selected
InitMenu ==
  /\ folder = EmptyFolder
  /\ now = 0
  /\ tz = 0
  /\ pc = [p \in Procs |-> IF p = "p1" THEN "menu" ELSE "idle"]
  /\ loc = [p \in Procs |->
              IF p = "p1"
              THEN [op |-> "menu", rows |-> {}, nextId |-> 1, editing |-> NoEditing,
                    lastMove |-> NoMove]
              ELSE NoLoc]
  /\ ret = [p \in Procs |-> NoRet]
  /\ HistIdle
  /\ DlgIdle

NextMenu ==
  \/ handleCreateMenuItem("p1")
  \/ handleSaveMenuItem("p1")
  \/ confirmDeleteAction("p1")
  \/ handleMoveMenuItem("p1")

SpecMenu == InitMenu /\ [][NextMenu]_vars

(* Claims on the menu items *)

\* the ids of the items in the order of sequence o
IdsOf(o) == [i \in DOMAIN o |-> o[i].id]

\* sequence s with the entries at i and j exchanged
Exchanged(s, i, j) ==
  [k \in DOMAIN s |-> IF k = i THEN s[j] ELSE IF k = j THEN s[i] ELSE s[k]]

\* C30: after any sequence of create, delete and move operations the
\* sort_order values of the event's menu items are pairwise distinct, and a
\* move of an item that is not at its section boundary exchanges the
\* positions of the item and its neighbour in the sort_order ordering, every
\* other item keeping its position and no item crossing a section header.
C30_ReorderingWorks ==
  \A p \in Procs : pc[p] = "menu" =>
    /\ \A r1, r2 \in loc[p].rows : r1.id # r2.id => r1.sort_order # r2.sort_order
    /\ loc[p].lastMove.moved =>
         LET m == loc[p].lastMove
         IN /\ m.before[m.swapIndex].is_header = 0
            /\ \A o \in MenuItemsOf(loc[p].rows) :
                 IdsOf(o) = Exchanged(IdsOf(m.before), m.index, m.swapIndex)

====
